---- MODULE Spec2Model ----
(***************************************************************************)
(* Project Samarth: the query pipeline of backend/utils.                   *)
(*                                                                         *)
(*   nlp_processor.py   NLPProcessor (analysis of the query text) and      *)
(*                      QueryMapper (analysis -> operation spec)           *)
(*   data_handler.py    DataHandler.query_cache, the TTL and size bounded  *)
(*                      cache of responses                                 *)
(*   query_engine.py    QueryEngine.process_query                          *)
(*   simple_data_handler.py, simple_query_engine.py                        *)
(*                      the fallback pair used without pandas and spaCy    *)
(*                                                                         *)
(* A query text is modelled as the sequence of its lower-case words, the   *)
(* text being the words joined by single blanks (the word "-" joins its    *)
(* neighbours without blanks).  A character offset is modelled as the      *)
(* number of words before it, so the span of the k-th word is [k-1, k).    *)
(* Confidences are in hundredths (0.9 is 90), times in whole seconds.      *)
(* An optional value (None, a missing dict key) is the empty sequence and  *)
(* a present value v is <<v>>.                                             *)
(***************************************************************************)
EXTENDS Integers, Sequences, FiniteSets, TLC

VARIABLES
    query_cache,    \* DataHandler.query_cache, entries in dict insertion order
    query_cache_file, \* the snapshot file query_cache.pkl, see Cut
    now,            \* datetime.now().timestamp()
    ticks,          \* the number of times the clock has advanced
    year,           \* datetime.now().year
    data_cache,     \* QueryEngine.data_cache, the tables memoized, by dataset path
    call,           \* the call made last and what it returned
    served,         \* per cache key, the successful responses returned so far
    threads,        \* the request threads of the threaded server
    nlp,            \* the text being analysed and its analysis
    dedup,          \* the candidate list given to _remove_duplicate_entities
    exec,           \* the engine step applied last to tables, and its result
    hashed          \* the query parameters hashed last, and their digests

vars ==
    <<query_cache, query_cache_file, now, ticks, year, data_cache, call, served, threads,
      nlp, dedup, exec, hashed>>

Min(S) == CHOOSE x \in S : \A y \in S : x <= y

MinOf(a, b) == IF a <= b THEN a ELSE b

None == <<>>

Some(v) == <<v>>

(***************************************************************************)
(* Bounds of the model.                                                    *)
(***************************************************************************)
MaxPhrases == 3         \* phrases in a query text

MaxTicks == 1           \* clock steps in a run


MaxCalls == 2           \* calls of process_query in a run
MaxOps == 2             \* calls of the cache methods in a run
MaxThreads == 2         \* threads serving requests at the same time

MaxCandidates == 3      \* candidate entities given to the overlap resolver

MaxPos == 3             \* largest character offset of a candidate entity
MaxRows == 2            \* rows of a table given to a step of the engine

(***************************************************************************)
(* NLPProcessor._initialize_patterns                                       *)
(***************************************************************************)
indian_states ==
  << [words |-> <<"andaman", "and", "nicobar", "islands">>, value |-> "Andaman And Nicobar Islands"],
     [words |-> <<"andhra", "pradesh">>, value |-> "Andhra Pradesh"],
     [words |-> <<"arunachal", "pradesh">>, value |-> "Arunachal Pradesh"],
     [words |-> <<"assam">>, value |-> "Assam"],
     [words |-> <<"bihar">>, value |-> "Bihar"],
     [words |-> <<"chandigarh">>, value |-> "Chandigarh"],
     [words |-> <<"chhattisgarh">>, value |-> "Chhattisgarh"],
     [words |-> <<"dadra", "and", "nagar", "haveli">>, value |-> "Dadra And Nagar Haveli"],
     [words |-> <<"daman", "and", "diu">>, value |-> "Daman And Diu"],
     [words |-> <<"delhi">>, value |-> "Delhi"],
     [words |-> <<"goa">>, value |-> "Goa"],
     [words |-> <<"gujarat">>, value |-> "Gujarat"],
     [words |-> <<"haryana">>, value |-> "Haryana"],
     [words |-> <<"himachal", "pradesh">>, value |-> "Himachal Pradesh"],
     [words |-> <<"jammu", "and", "kashmir">>, value |-> "Jammu And Kashmir"],
     [words |-> <<"jharkhand">>, value |-> "Jharkhand"],
     [words |-> <<"karnataka">>, value |-> "Karnataka"],
     [words |-> <<"kerala">>, value |-> "Kerala"],
     [words |-> <<"ladakh">>, value |-> "Ladakh"],
     [words |-> <<"lakshadweep">>, value |-> "Lakshadweep"],
     [words |-> <<"madhya", "pradesh">>, value |-> "Madhya Pradesh"],
     [words |-> <<"maharashtra">>, value |-> "Maharashtra"],
     [words |-> <<"manipur">>, value |-> "Manipur"],
     [words |-> <<"meghalaya">>, value |-> "Meghalaya"],
     [words |-> <<"mizoram">>, value |-> "Mizoram"],
     [words |-> <<"nagaland">>, value |-> "Nagaland"],
     [words |-> <<"odisha">>, value |-> "Odisha"],
     [words |-> <<"puducherry">>, value |-> "Puducherry"],
     [words |-> <<"punjab">>, value |-> "Punjab"],
     [words |-> <<"rajasthan">>, value |-> "Rajasthan"],
     [words |-> <<"sikkim">>, value |-> "Sikkim"],
     [words |-> <<"tamil", "nadu">>, value |-> "Tamil Nadu"],
     [words |-> <<"telangana">>, value |-> "Telangana"],
     [words |-> <<"tripura">>, value |-> "Tripura"],
     [words |-> <<"uttar", "pradesh">>, value |-> "Uttar Pradesh"],
     [words |-> <<"uttarakhand">>, value |-> "Uttarakhand"],
     [words |-> <<"west", "bengal">>, value |-> "West Bengal"] >>

indian_crops ==
  << [words |-> <<"apple">>, value |-> "Apple"],
     [words |-> <<"arhar">>, value |-> "Arhar"],
     [words |-> <<"bajra">>, value |-> "Bajra"],
     [words |-> <<"banana">>, value |-> "Banana"],
     [words |-> <<"barley">>, value |-> "Barley"],
     [words |-> <<"black", "pepper">>, value |-> "Black Pepper"],
     [words |-> <<"cardamom">>, value |-> "Cardamom"],
     [words |-> <<"cashew">>, value |-> "Cashew"],
     [words |-> <<"castor">>, value |-> "Castor"],
     [words |-> <<"citrus">>, value |-> "Citrus"],
     [words |-> <<"coconut">>, value |-> "Coconut"],
     [words |-> <<"coffee">>, value |-> "Coffee"],
     [words |-> <<"coriander">>, value |-> "Coriander"],
     [words |-> <<"cotton">>, value |-> "Cotton"],
     [words |-> <<"cumin">>, value |-> "Cumin"],
     [words |-> <<"fennel">>, value |-> "Fennel"],
     [words |-> <<"fenugreek">>, value |-> "Fenugreek"],
     [words |-> <<"ginger">>, value |-> "Ginger"],
     [words |-> <<"gram">>, value |-> "Gram"],
     [words |-> <<"grapes">>, value |-> "Grapes"],
     [words |-> <<"groundnut">>, value |-> "Groundnut"],
     [words |-> <<"jowar">>, value |-> "Jowar"],
     [words |-> <<"jute">>, value |-> "Jute"],
     [words |-> <<"khesari">>, value |-> "Khesari"],
     [words |-> <<"linseed">>, value |-> "Linseed"],
     [words |-> <<"maize">>, value |-> "Maize"],
     [words |-> <<"mango">>, value |-> "Mango"],
     [words |-> <<"masoor">>, value |-> "Masoor"],
     [words |-> <<"moong">>, value |-> "Moong"],
     [words |-> <<"mustard">>, value |-> "Mustard"],
     [words |-> <<"niger">>, value |-> "Niger"],
     [words |-> <<"onion">>, value |-> "Onion"],
     [words |-> <<"pomegranate">>, value |-> "Pomegranate"],
     [words |-> <<"potato">>, value |-> "Potato"],
     [words |-> <<"ragi">>, value |-> "Ragi"],
     [words |-> <<"rape">>, value |-> "Rape"],
     [words |-> <<"rice">>, value |-> "Rice"],
     [words |-> <<"safflower">>, value |-> "Safflower"],
     [words |-> <<"sesame">>, value |-> "Sesame"],
     [words |-> <<"sesamum">>, value |-> "Sesamum"],
     [words |-> <<"soybean">>, value |-> "Soybean"],
     [words |-> <<"sugarcane">>, value |-> "Sugarcane"],
     [words |-> <<"sunflower">>, value |-> "Sunflower"],
     [words |-> <<"sweet", "potato">>, value |-> "Sweet Potato"],
     [words |-> <<"tapioca">>, value |-> "Tapioca"],
     [words |-> <<"tea">>, value |-> "Tea"],
     [words |-> <<"turmeric">>, value |-> "Turmeric"],
     [words |-> <<"urad">>, value |-> "Urad"],
     [words |-> <<"wheat">>, value |-> "Wheat"] >>

(* query_patterns: per category, the alternatives of its regular           *)
(* expressions; an alternative a.*b is the sequence of its literals, a     *)
(* literal the sequence of its words.  "years?" searches like "year".      *)
query_patterns ==
  << [query_type |-> "comparison", patterns |->
        { << <<"compare">>, <<"between">> >>, << <<"compare">>, <<"and">> >>,
          << <<"difference", "between">> >>, << <<"versus">> >>, << <<"vs">> >>,
          << <<"higher">>, <<"than">> >>, << <<"lower">>, <<"than">> >>,
          << <<"more">>, <<"than">> >>, << <<"less">>, <<"than">> >>,
          << <<"which">>, <<"better">> >>, << <<"which">>, <<"worse">> >>,
          << <<"which">>, <<"higher">> >>, << <<"which">>, <<"lower">> >> }],
     [query_type |-> "ranking", patterns |->
        { << <<"highest">> >>, << <<"lowest">> >>, << <<"maximum">> >>,
          << <<"minimum">> >>, << <<"top">> >>, << <<"bottom">> >>,
          << <<"best">> >>, << <<"worst">> >>,
          << <<"rank">>, <<"by">> >>, << <<"sort">>, <<"by">> >>,
          << <<"order">>, <<"by">> >>,
          << <<"which">>, <<"most">> >>, << <<"which">>, <<"least">> >>,
          << <<"leading">> >>, << <<"lagging">> >> }],
     [query_type |-> "trend_analysis", patterns |->
        { << <<"trend">> >>, << <<"pattern">> >>, << <<"over">>, <<"year">> >>,
          << <<"over">>, <<"time">> >>, << <<"across">>, <<"year">> >>,
          << <<"increase">> >>, << <<"growth">> >>, << <<"decline">> >>,
          << <<"change">> >>,
          << <<"from">>, <<"to">> >>, << <<"between">>, <<"and">>, <<"year">> >>,
          << <<"during">>, <<"period">> >> }],
     [query_type |-> "correlation", patterns |->
        { << <<"correlat">> >>, << <<"relationship">> >>, << <<"connect">> >>,
          << <<"link">> >>, << <<"impact">>, <<"on">> >>,
          << <<"affect">> >>, << <<"influence">> >>, << <<"depend">> >>,
          << <<"relate">> >>,
          << <<"due">>, <<"to">> >>, << <<"because">>, <<"of">> >>,
          << <<"result">>, <<"of">> >> }] >>

(* time_patterns, in dict order: the words of the pattern, "#N" for (\d+)  *)
(* and "#Y" for (\d{4}), and what the lambda makes of the groups.          *)
time_patterns ==
  << [template |-> <<"last", "#N", "year">>, extractor |-> "int"],
     [template |-> <<"past", "#N", "year">>, extractor |-> "int"],
     [template |-> <<"#Y", "-", "#Y">>, extractor |-> "pair"],
     [template |-> <<"from", "#Y", "to", "#Y">>, extractor |-> "pair"],
     [template |-> <<"between", "#Y", "and", "#Y">>, extractor |-> "pair"],
     [template |-> <<"in", "#Y">>, extractor |-> "int"],
     [template |-> <<"decade">>, extractor |-> "ten"],
     [template |-> <<"last", "decade">>, extractor |-> "ten"] >>

(***************************************************************************)
(* The words of the modelled texts.  Inside holds the pairs <<l, w>> of a  *)
(* pattern literal l that occurs inside a longer word w of the texts, so   *)
(* that a search for l finds it in w.  IntOf is int() on the digit words.  *)
(***************************************************************************)
Phrases ==
  { <<"compare">>, <<"highest">>, <<"affect">>, <<"rice", "production">>,
    <<"punjab">>, <<"last", "5", "years">>, <<"from", "2020", "to", "2010">>,
    <<"between", "2010", "and", "2020">>, <<"in", "2020">>, <<"decade">> }

Inside == { <<"on", "production">>, <<"to", "potato">>, <<"year", "years">> }

IntOf == [w \in {"5", "2010", "2020"} |-> CASE w = "5" -> 5 [] w = "2010" -> 2010 [] w = "2020" -> 2020]

IsDigits(w) == w \in DOMAIN IntOf

IsFourDigits(w) == IsDigits(w) /\ IntOf[w] >= 1000 /\ IntOf[w] <= 9999

(***************************************************************************)
(* re.search on a text                                                     *)
(***************************************************************************)
Sub(lit, word) == lit = word \/ <<lit, word>> \in Inside

LiteralAt(q, lit, i) ==
    /\ i + Len(lit) - 1 <= Len(q)
    /\ IF Len(lit) = 1 THEN Sub(lit[1], q[i])
       ELSE \A k \in 1..Len(lit) : q[i + k - 1] = lit[k]

RECURSIVE SearchFrom(_, _, _)
SearchFrom(q, alt, from) ==
    IF alt = <<>> THEN TRUE
    ELSE \E i \in from..Len(q) :
            /\ LiteralAt(q, Head(alt), i)
            /\ SearchFrom(q, Tail(alt), i + Len(Head(alt)))

re_search(q, alt) == SearchFrom(q, alt, 1)

ElementAt(q, e, i) ==
    CASE e = "#N" -> IsDigits(q[i])
      [] e = "#Y" -> IsFourDigits(q[i])
      [] OTHER -> Sub(e, q[i])

TemplateAt(q, template, i) ==
    /\ i + Len(template) - 1 <= Len(q)
    /\ \A k \in 1..Len(template) : ElementAt(q, template[k], i + k - 1)

(* the groups of the leftmost match of a time pattern, None without match  *)
TimeMatch(q, template) ==
    LET at == {i \in 1..Len(q) : TemplateAt(q, template, i)}
        holes == {k \in 1..Len(template) : template[k] \in {"#N", "#Y"}}
    IN  IF at = {} THEN None
        ELSE Some([k \in holes |-> IntOf[q[Min(at) + k - 1]]])

(***************************************************************************)
(* NLPProcessor._classify_query_type                                       *)
(***************************************************************************)
(* a classification that goes on to the last category that matches *)
_classify_query_type_LastWins(query) ==
    LET hits == {k \in 1..Len(query_patterns) :
                    \E alt \in query_patterns[k].patterns : re_search(query, alt)}
    IN  IF hits = {} THEN "general_info"
        ELSE query_patterns[CHOOSE k \in hits : \A j \in hits : j <= k].query_type

_classify_query_type(query) ==
    LET hits == {k \in 1..Len(query_patterns) :
                    \E alt \in query_patterns[k].patterns : re_search(query, alt)}
    IN  IF hits = {} THEN "general_info" ELSE query_patterns[Min(hits)].query_type

(***************************************************************************)
(* NLPProcessor._remove_duplicate_entities                                 *)
(***************************************************************************)
Entity(type, value, confidence, start, end) ==
    [entity_type |-> type, value |-> value, confidence |-> confidence,
     start_pos |-> start, end_pos |-> end]

(* the entities left in the order they were found *)
SortByStart_Skipped(entities) == entities

(* entities.sort(key=start_pos): a stable sort *)
RECURSIVE SortByStart(_)
SortByStart(entities) ==
    IF entities = <<>> THEN <<>>
    ELSE LET sorted == SortByStart(SubSeq(entities, 1, Len(entities) - 1))
             e == entities[Len(entities)]
             before == {i \in 1..Len(sorted) : sorted[i].start_pos <= e.start_pos}
             cut == IF before = {} THEN 0 ELSE CHOOSE i \in before : \A j \in before : j <= i
         IN  SubSeq(sorted, 1, cut) \o <<e>> \o SubSeq(sorted, cut + 1, Len(sorted))

Overlaps(entity, existing) ==
    entity.start_pos < existing.end_pos /\ entity.end_pos > existing.start_pos

(* list.remove(x): drops the first element equal to x *)
ListRemove(list, x) ==
    LET at == Min({i \in 1..Len(list) : list[i] = x})
    IN  SubSeq(list, 1, at - 1) \o SubSeq(list, at + 1, Len(list))

(* a round that keeps the entity found first whatever the confidences *)
KeepOrReplace_FirstStays(filtered_entities, entity) ==
    LET over == {i \in 1..Len(filtered_entities) : Overlaps(entity, filtered_entities[i])}
    IN  IF over = {} THEN Append(filtered_entities, entity) ELSE filtered_entities

(* one round of the loop over the sorted entities *)
KeepOrReplace(filtered_entities, entity) ==
    LET over == {i \in 1..Len(filtered_entities) : Overlaps(entity, filtered_entities[i])}
    IN  IF over = {} THEN Append(filtered_entities, entity)
        ELSE LET existing == filtered_entities[Min(over)]
             IN  IF entity.confidence > existing.confidence
                 THEN Append(ListRemove(filtered_entities, existing), entity)
                 ELSE filtered_entities

RECURSIVE ScanEntities(_, _)
ScanEntities(filtered_entities, rest) ==
    IF rest = <<>> THEN filtered_entities
    ELSE ScanEntities(KeepOrReplace(filtered_entities, Head(rest)), Tail(rest))

_remove_duplicate_entities(entities) ==
    IF entities = <<>> THEN entities
    ELSE ScanEntities(<<>>, SortByStart(entities))

(***************************************************************************)
(* NLPProcessor._extract_entities                                          *)
(***************************************************************************)
WordsAt(q, words, i) ==
    /\ i + Len(words) - 1 <= Len(q)
    /\ \A k \in 1..Len(words) : q[i + k - 1] = words[k]

(* re.finditer(r'\b' + name + r'\b'): the matches left to right, none overlapping *)
RECURSIVE FindIter(_, _, _)
FindIter(q, words, from) ==
    IF from + Len(words) - 1 > Len(q) THEN <<>>
    ELSE IF WordsAt(q, words, from)
         THEN <<from>> \o FindIter(q, words, from + Len(words))
         ELSE FindIter(q, words, from + 1)

(* for name in names: for match in re.finditer(...): entities.append(...)  *)
(* A name is looked for only when its first word is in the text.           *)
RECURSIVE GazetteerEntities(_, _, _, _)
GazetteerEntities(q, names, type, todo) ==
    IF todo = {} THEN <<>>
    ELSE LET k == Min(todo)
             found == FindIter(q, names[k].words, 1)
         IN  [m \in 1..Len(found) |->
                 Entity(type, names[k].value, 90, found[m] - 1,
                        found[m] - 1 + Len(names[k].words))]
             \o GazetteerEntities(q, names, type, todo \ {k})

Gazetteer(q, names, type) ==
    GazetteerEntities(q, names, type,
        {k \in 1..Len(names) : \E i \in 1..Len(q) : q[i] = names[k].words[1]})

(* r'\b(19|20)\d{2}\b' *)
IsYearWord(w) == IsFourDigits(w) /\ (IntOf[w] \div 100) \in {19, 20}

RECURSIVE YearEntities(_, _)
YearEntities(q, i) ==
    IF i > Len(q) THEN <<>>
    ELSE (IF IsYearWord(q[i]) THEN <<Entity("year", q[i], 95, i - 1, i)>> ELSE <<>>)
         \o YearEntities(q, i + 1)

(* doc.ents of spaCy: each ent is [label_, text, start_char, end_char] *)
RECURSIVE SpacyEntities(_)
SpacyEntities(ents) ==
    IF ents = <<>> THEN <<>>
    ELSE LET ent == Head(ents)
         IN  (IF ent.label_ \in {"GPE", "LOC"}
              THEN <<Entity("location", ent.text, 80, ent.start_char, ent.end_char)>>
              ELSE IF ent.label_ = "DATE"
              THEN <<Entity("date", ent.text, 70, ent.start_char, ent.end_char)>>
              ELSE <<>>)
             \o SpacyEntities(Tail(ents))

(* ents is doc.ents when the spaCy model is loaded and <<>> when it is not *)
_extract_entities(query, ents) ==
    _remove_duplicate_entities(
        SpacyEntities(ents)
        \o Gazetteer(query, indian_states, "state")
        \o Gazetteer(query, indian_crops, "crop")
        \o YearEntities(query, 1))

(***************************************************************************)
(* NLPProcessor._extract_parameters                                        *)
(* An int time period N is <<N>>, a tuple (a, b) is <<a, b>>.              *)
(***************************************************************************)
Extracted(extractor, groups) ==
    LET holes == DOMAIN groups
        first == Min(holes)
        second == CHOOSE k \in holes : \A j \in holes : j <= k
    IN  CASE extractor = "int" -> <<groups[first]>>
          [] extractor = "pair" -> <<groups[first], groups[second]>>
          [] extractor = "ten" -> <<10>>

(* a loop without break: the last pattern that matches is kept *)
ExtractTimePeriod_NoBreak(query) ==
    LET hits == {k \in 1..Len(time_patterns) :
                    TimeMatch(query, time_patterns[k].template) # None}
    IN  IF hits = {} THEN None
        ELSE LET last == time_patterns[CHOOSE k \in hits : \A j \in hits : j <= k]
             IN  Some(Extracted(last.extractor, TimeMatch(query, last.template)[1]))

ExtractTimePeriod(query) ==
    LET hits == {k \in 1..Len(time_patterns) :
                    TimeMatch(query, time_patterns[k].template) # None}
    IN  IF hits = {} THEN None
        ELSE LET first == time_patterns[Min(hits)]
             IN  Some(Extracted(first.extractor, TimeMatch(query, first.template)[1]))

(* any(word in query for word in words) *)
AnyIn(query, words) == \E w \in words : \E i \in 1..Len(query) : Sub(w, query[i])

ExtractMetric(query) ==
    IF AnyIn(query, {"production", "produce", "output"}) THEN Some("production")
    ELSE IF AnyIn(query, {"rainfall", "rain", "precipitation"}) THEN Some("rainfall")
    ELSE IF AnyIn(query, {"yield", "productivity"}) THEN Some("yield")
    ELSE IF AnyIn(query, {"area", "acreage"}) THEN Some("area")
    ELSE None

ExtractAggregation(query) ==
    IF AnyIn(query, {"average", "mean", "avg"}) THEN Some("mean")
    ELSE IF AnyIn(query, {"total", "sum"}) THEN Some("sum")
    ELSE IF AnyIn(query, {"maximum", "max", "highest"}) THEN Some("max")
    ELSE IF AnyIn(query, {"minimum", "min", "lowest"}) THEN Some("min")
    ELSE None

_extract_parameters(query) ==
    [time_period |-> ExtractTimePeriod(query),
     metric |-> ExtractMetric(query),
     aggregation |-> ExtractAggregation(query)]

(* len(parameters), parameters.get(key, default) *)
ParamCount(parameters) ==
    Cardinality({k \in DOMAIN parameters : parameters[k] # None})

GetOr(option, default) == IF option = None THEN default ELSE option[1]

(***************************************************************************)
(* NLPProcessor._generate_intent: the pieces of the sentence               *)
(***************************************************************************)
RECURSIVE ValuesOfType(_, _)
ValuesOfType(entities, type) ==
    IF entities = <<>> THEN <<>>
    ELSE (IF Head(entities).entity_type = type THEN <<Head(entities).value>> ELSE <<>>)
         \o ValuesOfType(Tail(entities), type)

RECURSIVE JoinWith(_, _)
JoinWith(values, sep) ==
    IF Len(values) <= 1 THEN values
    ELSE <<Head(values), sep>> \o JoinWith(Tail(values), sep)

_generate_intent(query_type, entities, parameters) ==
    LET states == ValuesOfType(entities, "state")
        crops == ValuesOfType(entities, "crop")
        metric == GetOr(parameters.metric, "production")
    IN  CASE query_type = "comparison" ->
                IF Len(states) >= 2
                THEN <<"Compare", metric, "between">> \o JoinWith(states, "and")
                ELSE IF crops # <<>> /\ states # <<>>
                THEN <<"Compare", crops[1], metric, "across states">>
                ELSE <<"Compare", metric, "data">>
          [] query_type = "ranking" ->
                IF crops # <<>> THEN <<"Rank states by", crops[1], metric>>
                ELSE <<"Rank by", metric>>
          [] query_type = "trend_analysis" ->
                IF crops # <<>> /\ states # <<>>
                THEN <<"Analyze", crops[1], metric, "trend in", states[1]>>
                ELSE IF crops # <<>> THEN <<"Analyze", crops[1], metric, "trend">>
                ELSE <<"Analyze", metric, "trend">>
          [] query_type = "correlation" ->
                <<"Analyze correlation between agricultural and meteorological data">>
          [] OTHER ->
                <<"General agricultural or meteorological information query">>

(***************************************************************************)
(* NLPProcessor._calculate_confidence, in hundredths                       *)
(***************************************************************************)
(* the sum left as it is *)
_calculate_confidence_Unclipped(query_type, entities, parameters) ==
    50 + MinOf(Len(entities) * 10, 30) + MinOf(ParamCount(parameters) * 5, 15)
       + (IF query_type # "general_info" THEN 10 ELSE 0)

_calculate_confidence(query_type, entities, parameters) ==
    MinOf(50 + MinOf(Len(entities) * 10, 30) + MinOf(ParamCount(parameters) * 5, 15)
             + (IF query_type # "general_info" THEN 10 ELSE 0),
          100)

(***************************************************************************)
(* NLPProcessor.analyze_query                                              *)
(***************************************************************************)
analyze_query(query, ents) ==
    LET query_type == _classify_query_type(query)
        entities == _extract_entities(query, ents)
        parameters == _extract_parameters(query)
    IN  [query_type |-> query_type,
         entities |-> entities,
         intent |-> _generate_intent(query_type, entities, parameters),
         confidence |-> _calculate_confidence(query_type, entities, parameters),
         parameters |-> parameters]

(***************************************************************************)
(* QueryMapper                                                             *)
(***************************************************************************)
dataset_mappings(metric) ==
    CASE metric = "production" ->
            <<"agriculture.crop_production", "agriculture.state_wise_production">>
      [] metric = "rainfall" ->
            <<"meteorology.rainfall_data", "meteorology.monthly_rainfall">>
      [] metric = "yield" -> <<"agriculture.crop_production">>
      [] metric = "area" -> <<"agriculture.crop_production">>

RECURSIVE IntValuesOfType(_, _)
IntValuesOfType(entities, type) ==
    IF entities = <<>> THEN <<>>
    ELSE (IF Head(entities).entity_type = type THEN <<IntOf[Head(entities).value]>> ELSE <<>>)
         \o IntValuesOfType(Tail(entities), type)

ListFilter(values) == IF values = <<>> THEN None ELSE Some(values)

(* a range of N years that counts the current one in *)
YearRange_Counted(time_period, current_year) ==
    IF time_period = None THEN None
    ELSE IF Len(time_period[1]) = 1
         THEN Some(<<current_year - time_period[1][1] + 1, current_year>>)
         ELSE Some(time_period[1])

YearRange(time_period, current_year) ==
    IF time_period = None THEN None
    ELSE IF Len(time_period[1]) = 1
         THEN Some(<<current_year - time_period[1][1], current_year>>)
         ELSE Some(time_period[1])

map_query_to_operations(analysis, current_year) ==
    LET metric == GetOr(analysis.parameters.metric, "production")
    IN  [query_type |-> analysis.query_type,
         datasets_needed |-> dataset_mappings(metric),
         filters |->
            [state |-> ListFilter(ValuesOfType(analysis.entities, "state")),
             crop |-> ListFilter(ValuesOfType(analysis.entities, "crop")),
             year |-> ListFilter(IntValuesOfType(analysis.entities, "year")),
             year_range |-> YearRange(analysis.parameters.time_period, current_year)],
         aggregations |->
            << [column |-> metric,
                function |-> GetOr(analysis.parameters.aggregation, "sum"),
                group_by |-> IF analysis.query_type = "trend_analysis"
                             THEN <<"state", "year">> ELSE <<"state">>] >>,
         joins |-> <<>>,
         output_format |->
            IF analysis.query_type \in {"trend_analysis", "correlation"} THEN "chart"
            ELSE IF analysis.query_type = "ranking" THEN "ranked_table"
            ELSE "table"]

(***************************************************************************)
(* DataHandler: the query cache                                            *)
(***************************************************************************)
cache_timeout == 3600

CacheLimit == 100

(* json.dumps.  A Python value is [t, v]: a str, a text (a str given by    *)
(* its words), an int, a list (or tuple) of values, or a dict given by its *)
(* items <<key, value>> in insertion order.  The JSON text is the sequence *)
(* of its tokens.                                                          *)
JStr(s) == [t |-> "str", v |-> s]

JText(words) == [t |-> "text", v |-> words]

JInt(n) == [t |-> "int", v |-> n]

JList(values) == [t |-> "list", v |-> values]

JDict(items) == [t |-> "dict", v |-> items]

DigitWords == <<"0", "1", "2", "3", "4", "5", "6", "7", "8", "9">>

RECURSIVE Decimal(_)
Decimal(n) ==
    IF n < 10 THEN DigitWords[n + 1]
    ELSE Decimal(n \div 10) \o DigitWords[(n % 10) + 1]

(* the keys of the dicts of a cache key, in the order of str comparison *)
Keys ==
    <<"aggregations", "column", "crop", "datasets_needed", "entities", "filters",
      "function", "group_by", "intent", "joins", "operations", "output_format",
      "query", "query_type", "state", "type", "value", "year", "year_range">>

KeyRanks == [key \in {Keys[k] : k \in 1..Len(Keys)} |->
                CHOOSE k \in 1..Len(Keys) : Keys[k] = key]

KeyRank(key) == KeyRanks[key]

(* sorted(dct.items()) *)
ItemsByKey(items) ==
    LET at(i) == Cardinality({j \in 1..Len(items) :
                                 KeyRank(items[j][1]) < KeyRank(items[i][1])}) + 1
    IN  [p \in 1..Len(items) |-> items[CHOOSE i \in 1..Len(items) : at(i) = p]]

RECURSIVE json_dumps(_, _)
RECURSIVE DumpList(_, _)
RECURSIVE DumpItems(_, _)
DumpList(values, sort_keys) ==
    IF values = <<>> THEN <<>>
    ELSE json_dumps(Head(values), sort_keys)
         \o (IF Len(values) > 1 THEN <<",">> ELSE <<>>)
         \o DumpList(Tail(values), sort_keys)

DumpItems(items, sort_keys) ==
    IF items = <<>> THEN <<>>
    ELSE <<"'", Head(items)[1], "'", ":">> \o json_dumps(Head(items)[2], sort_keys)
         \o (IF Len(items) > 1 THEN <<",">> ELSE <<>>)
         \o DumpItems(Tail(items), sort_keys)

json_dumps(obj, sort_keys) ==
    CASE obj.t = "str" -> <<"'", obj.v, "'">>
      [] obj.t = "text" -> <<"'">> \o obj.v \o <<"'">>
      [] obj.t = "int" -> <<Decimal(obj.v)>>
      [] obj.t = "list" -> <<"[">> \o DumpList(obj.v, sort_keys) \o <<"]">>
      [] obj.t = "dict" ->
            <<"{">> \o DumpItems(IF sort_keys THEN ItemsByKey(obj.v) ELSE obj.v, sort_keys)
                   \o <<"}">>

(* a digest of the text with the keys as they were inserted *)
_get_query_hash_Unsorted(query_params) == <<"md5", json_dumps(query_params, FALSE)>>

(* hashlib.md5(json.dumps(query_params, sort_keys=True).encode()).hexdigest(): *)
(* the digest is held as the text it is the digest of                      *)
_get_query_hash(query_params) == <<"md5", json_dumps(query_params, TRUE)>>

KeyIndex(cache, query_hash) == {i \in 1..Len(cache) : cache[i].hash = query_hash}

RemoveAt(cache, S) ==
    LET keep == {i \in 1..Len(cache) : i \notin S}
        RECURSIVE Pick(_)
        Pick(i) == IF i > Len(cache) THEN <<>>
                   ELSE (IF i \in keep THEN <<cache[i]>> ELSE <<>>) \o Pick(i + 1)
    IN  Pick(1)

(* an entry that is exactly cache_timeout old still counts *)
StillValid_Inclusive(cache_time, t) == t - cache_time <= cache_timeout

(* the validity test of get_cached_query_result *)
StillValid(cache_time, t) == t - cache_time < cache_timeout

(* get_cached_query_result at time t: the cache afterwards and the value returned *)
get_cached_query_result(cache, query_params, t) ==
    LET query_hash == _get_query_hash(query_params)
        at == KeyIndex(cache, query_hash)
    IN  IF at = {} THEN [query_cache |-> cache, ret |-> None]
        ELSE LET cache_entry == cache[Min(at)]
             IN  IF StillValid(cache_entry.timestamp, t)
                 THEN [query_cache |-> cache, ret |-> Some(cache_entry.result)]
                 ELSE [query_cache |-> RemoveAt(cache, at), ret |-> None]

(* self.query_cache[query_hash] = {...}: a new key goes last, a key that   *)
(* is present keeps its place                                              *)
StoreEntry(cache, query_params, result, t) ==
    LET query_hash == _get_query_hash(query_params)
        entry == [hash |-> query_hash, timestamp |-> t, result |-> result]
        at == KeyIndex(cache, query_hash)
    IN  IF at = {} THEN Append(cache, entry) ELSE [cache EXCEPT ![Min(at)] = entry]

(* the first n entries as the dict holds them, unsorted *)
OldestEntries_Unsorted(cache, n) == {i \in 1..Len(cache) : i <= n}

(* a sort with the youngest entries first *)
OldestEntries_Youngest(cache, n) ==
    {i \in 1..Len(cache) :
        Cardinality({j \in 1..Len(cache) :
            \/ cache[j].timestamp > cache[i].timestamp
            \/ cache[j].timestamp = cache[i].timestamp /\ j > i}) < n}

(* sorted(items, key=timestamp)[:n]: the places of the first n entries of  *)
(* the stable sort by timestamp                                            *)
OldestEntries(cache, n) ==
    {i \in 1..Len(cache) :
        Cardinality({j \in 1..Len(cache) :
            \/ cache[j].timestamp < cache[i].timestamp
            \/ cache[j].timestamp = cache[i].timestamp /\ j < i}) < n}

(* a clean-up that starts one entry late *)
EvictOldest_Late(cache) ==
    IF Len(cache) > CacheLimit + 1
    THEN RemoveAt(cache, OldestEntries(cache, Len(cache) - CacheLimit))
    ELSE cache

(* the clean-up of cache_query_result *)
EvictOldest(cache) ==
    IF Len(cache) > CacheLimit
    THEN RemoveAt(cache, OldestEntries(cache, Len(cache) - CacheLimit))
    ELSE cache

cache_query_result(cache, query_params, result, t) ==
    EvictOldest(StoreEntry(cache, query_params, result, t))

(* The snapshot file query_cache.pkl is None when it does not exist,       *)
(* <<cache>> when it holds the pickle of cache, and Cut(cache) when it     *)
(* holds a damaged pickle of cache, which pickle.load does not read.       *)
Cut(cache) == <<cache, "cut_short">>

(* _save_query_cache: the file afterwards; a failure is logged and ignored. *)
(* "written" replaces the file, "cut_short" is a dump that fails after the  *)
(* file was opened for writing, "not_opened" an open that fails.            *)
SaveOutcomes == {"written", "cut_short", "not_opened"}

_save_query_cache(file, cache, outcome) ==
    CASE outcome = "written" -> Some(cache)
      [] outcome = "cut_short" -> Cut(cache)
      [] outcome = "not_opened" -> file

(* a load that takes what it finds in a damaged file for the cache *)
_load_query_cache_Unguarded(file) == IF file = None THEN <<>> ELSE file[1]

(* _load_query_cache: the cache after __init__; a failure is logged and    *)
(* the cache is empty                                                      *)
_load_query_cache(file) ==
    IF file = None THEN <<>>
    ELSE IF Len(file) # 1 THEN <<>>
    ELSE file[1]

(***************************************************************************)
(* pandas, as far as the engine uses it.                                   *)
(* A float is the fraction num/den in lowest terms with den > 0; den = 0   *)
(* is inf, which numpy returns for a division by zero.  NaN is None.  A    *)
(* DataFrame is its column names, in order, and its rows, each a function  *)
(* from the column names to cells: a name for state and crop, an optional  *)
(* whole number for year, an optional float for a metric.                  *)
(***************************************************************************)
Abs(n) == IF n < 0 THEN -n ELSE n

RECURSIVE GCD(_, _)
GCD(a, b) == IF b = 0 THEN a ELSE GCD(b, a % b)

Frac(n, d) ==
    IF d = 0 THEN [num |-> IF n > 0 THEN 1 ELSE -1, den |-> 0]
    ELSE LET g == GCD(Abs(n), Abs(d))
             s == IF d < 0 THEN -1 ELSE 1
         IN  [num |-> (s * n) \div g, den |-> (s * d) \div g]

Num(n) == [num |-> n, den |-> 1]

NaN == None

Plus(a, b) == Frac(a.num * b.den + b.num * a.den, a.den * b.den)

Minus(a, b) == Frac(a.num * b.den - b.num * a.den, a.den * b.den)

Times(a, b) == Frac(a.num * b.num, a.den * b.den)

(* a / b of two numpy floats, a # 0 or b # 0: no exception, inf for b = 0 *)
Divide(a, b) == Frac(a.num * b.den, a.den * b.num)

Less(a, b) == a.num * b.den < b.num * a.den

(* x > y of two cells: False when either is NaN *)
CellGreater(x, y) == x # NaN /\ y # NaN /\ Less(y[1], x[1])

DataFrame(columns, rows) == [columns |-> columns, rows |-> rows]

Range(s) == {s[k] : k \in 1..Len(s)}

HasColumn(df, column) == column \in Range(df.columns)

(* df.empty: no rows or no columns *)
IsEmpty(df) == df.rows = <<>> \/ df.columns = <<>>

(* df[mask]: the rows the mask keeps, in their order *)
Where(df, Keep(_)) == [df EXCEPT !.rows = SelectSeq(df.rows, Keep)]

(* the sequence s in the order of a stable sort by Before *)
StableSort(s, Before(_, _)) ==
    LET at(i) == Cardinality({j \in 1..Len(s) :
                    \/ Before(s[j], s[i])
                    \/ ~Before(s[i], s[j]) /\ j < i}) + 1
    IN  [p \in 1..Len(s) |-> s[CHOOSE i \in 1..Len(s) : at(i) = p]]

(* the names the data may hold, in the order of str comparison *)
Names == <<"Kerala", "Punjab", "Rice", "Wheat", "kerala", "punjab">>

NameRank(name) == CHOOSE k \in 1..Len(Names) : Names[k] = name

(* str.title().str.strip() on these names *)
Title(name) ==
    CASE name = "kerala" -> "Kerala"
      [] name = "punjab" -> "Punjab"
      [] OTHER -> name

(* Series.sum/mean/max/min/count: NaN cells are skipped *)
Present(cells) == SelectSeq(cells, LAMBDA x : x # NaN)

RECURSIVE SumOf(_)
SumOf(cells) == IF cells = <<>> THEN Num(0) ELSE Plus(cells[1][1], SumOf(Tail(cells)))

RECURSIVE MaxCell(_)
MaxCell(cells) ==
    IF Len(cells) = 1 THEN cells[1][1]
    ELSE LET rest == MaxCell(Tail(cells))
         IN  IF Less(rest, cells[1][1]) THEN cells[1][1] ELSE rest

RECURSIVE MinCell(_)
MinCell(cells) ==
    IF Len(cells) = 1 THEN cells[1][1]
    ELSE LET rest == MinCell(Tail(cells))
         IN  IF Less(cells[1][1], rest) THEN cells[1][1] ELSE rest

Functions == {"sum", "mean", "max", "min", "count"}

(* Series.agg(function) for the functions pandas knows *)
Agg(function, cells) ==
    LET present == Present(cells)
    IN  CASE function = "sum" -> Some(SumOf(present))
          [] function = "count" -> Some(Num(Len(present)))
          [] function = "mean" ->
                IF present = <<>> THEN NaN
                ELSE Some(Divide(SumOf(present), Num(Len(present))))
          [] function = "max" -> IF present = <<>> THEN NaN ELSE Some(MaxCell(present))
          [] function = "min" -> IF present = <<>> THEN NaN ELSE Some(MinCell(present))

(* the cells of a column, row by row *)
Column(df, column) == [k \in 1..Len(df.rows) |-> df.rows[k][column]]

(* df.groupby(by)[column].agg(function).reset_index(): one row per key of  *)
(* by that occurs with no NaN in it, the keys in ascending order           *)
KeyOf(row, by) == [k \in 1..Len(by) |-> row[by[k]]]

(* NaN after every year; the names are never missing *)
CellBefore(column, x, y) ==
    IF column = "year" THEN x # NaN /\ (y = NaN \/ x[1] < y[1])
    ELSE NameRank(x) < NameRank(y)

KeyBefore(by, a, b) ==
    \E k \in 1..Len(a) :
        /\ \A j \in 1..(k - 1) : a[j] = b[j]
        /\ a[k] # b[k]
        /\ CellBefore(by[k], a[k], b[k])

GroupKeys(df, by) ==
    {KeyOf(df.rows[k], by) : k \in {i \in 1..Len(df.rows) :
                                      "year" \in Range(by) => df.rows[i].year # NaN}}

RECURSIVE Ascending(_, _)
Ascending(by, group_keys) ==
    IF group_keys = {} THEN <<>>
    ELSE LET first == CHOOSE a \in group_keys :
                          \A b \in group_keys \ {a} : KeyBefore(by, a, b)
         IN  <<first>> \o Ascending(by, group_keys \ {first})

GroupRow(df, by, column, function, group_key) ==
    [c \in Range(by) \cup {column} |->
        IF c = column
        THEN Agg(function, Column(Where(df, LAMBDA row : KeyOf(row, by) = group_key), column))
        ELSE group_key[CHOOSE k \in 1..Len(by) : by[k] = c]]

GroupByAgg(df, by, column, function) ==
    LET group_keys == Ascending(by, GroupKeys(df, by))
    IN  DataFrame(by \o <<column>>,
                  [g \in 1..Len(group_keys) |->
                      GroupRow(df, by, column, function, group_keys[g])])

(* df.sort_values(column), ascending or not: NaN goes last either way *)
SortValues(df, column, ascending) ==
    [df EXCEPT !.rows =
        StableSort(df.rows,
            LAMBDA r1, r2 :
                /\ r1[column] # NaN
                /\ \/ r2[column] = NaN
                   \/ IF ascending THEN CellGreater(r2[column], r1[column])
                      ELSE CellGreater(r1[column], r2[column]))]

(* sort_values('year'): the years are whole numbers *)
SortByYear(df) ==
    [df EXCEPT !.rows =
        StableSort(df.rows,
            LAMBDA r1, r2 :
                /\ r1.year # NaN
                /\ (r2.year = NaN \/ r1.year[1] < r2.year[1]))]

(***************************************************************************)
(* DataProcessor                                                           *)
(***************************************************************************)
(* dropna on state, crop and year (the names are never missing here), the  *)
(* numeric columns made numeric (they are), production > 0, title case     *)
clean_agricultural_data(df) ==
    IF IsEmpty(df) THEN df
    ELSE LET kept == Where(df, LAMBDA row :
                        /\ HasColumn(df, "year") => row.year # NaN
                        /\ HasColumn(df, "production") =>
                               CellGreater(row.production, Some(Num(0))))
         IN  [kept EXCEPT !.rows =
                 [k \in 1..Len(kept.rows) |->
                     [c \in Range(df.columns) |->
                         IF c \in {"state", "crop"} THEN Title(kept.rows[k][c])
                         ELSE kept.rows[k][c]]]]

(* rainfall >= 0, title case *)
clean_rainfall_data(df) ==
    IF IsEmpty(df) THEN df
    ELSE LET kept == Where(df, LAMBDA row :
                        HasColumn(df, "rainfall") =>
                            /\ row.rainfall # NaN
                            /\ ~Less(row.rainfall[1], Num(0)))
         IN  [kept EXCEPT !.rows =
                 [k \in 1..Len(kept.rows) |->
                     [c \in Range(df.columns) |->
                         IF c = "state" THEN Title(kept.rows[k][c])
                         ELSE kept.rows[k][c]]]]

(***************************************************************************)
(* QueryEngine._apply_filters                                              *)
(* The filters are applied one after the other in the order of the dict;   *)
(* each keeps the rows that pass it, so the order does not show.           *)
(***************************************************************************)
(* a filter whose range ends before its end year *)
_apply_filters_EndExclusive(df, filters) ==
    IF IsEmpty(df) THEN df
    ELSE Where(df, LAMBDA row :
            /\ (filters.state # None /\ HasColumn(df, "state")) =>
                   row.state \in Range(filters.state[1])
            /\ (filters.crop # None /\ HasColumn(df, "crop")) =>
                   row.crop \in Range(filters.crop[1])
            /\ (filters.year # None /\ HasColumn(df, "year")) =>
                   row.year # NaN /\ row.year[1] \in Range(filters.year[1])
            /\ (filters.year_range # None /\ HasColumn(df, "year")) =>
                   /\ row.year # NaN
                   /\ row.year[1] >= filters.year_range[1][1]
                   /\ row.year[1] < filters.year_range[1][2])

_apply_filters(df, filters) ==
    IF IsEmpty(df) THEN df
    ELSE Where(df, LAMBDA row :
            /\ (filters.state # None /\ HasColumn(df, "state")) =>
                   row.state \in Range(filters.state[1])
            /\ (filters.crop # None /\ HasColumn(df, "crop")) =>
                   row.crop \in Range(filters.crop[1])
            /\ (filters.year # None /\ HasColumn(df, "year")) =>
                   row.year # NaN /\ row.year[1] \in Range(filters.year[1])
            /\ (filters.year_range # None /\ HasColumn(df, "year")) =>
                   /\ row.year # NaN
                   /\ row.year[1] >= filters.year_range[1][1]
                   /\ row.year[1] <= filters.year_range[1][2])

(***************************************************************************)
(* QueryEngine._perform_aggregation                                        *)
(* datasets is the dict of the filtered tables, a sequence of              *)
(* [path, df]; the result is the dict of the entries                       *)
(* [dataset, tag, value] under the keys "<dataset>_<tag>", value being a   *)
(* DataFrame, or a scalar under the tag "total".                           *)
(***************************************************************************)
ResultEntry(dataset, tag, value) == [dataset |-> dataset, tag |-> tag, value |-> value]

IsDataFrame(entry) == entry.tag # "total"

(* one round of the loop over the datasets: the entry of this table, if any *)
AggregateOne(dataset_path, df, agg_spec, query_type) ==
    IF IsEmpty(df) \/ ~HasColumn(df, agg_spec.column) THEN <<>>
    ELSE IF agg_spec.group_by # <<>>
    THEN LET valid_group_by == SelectSeq(agg_spec.group_by, LAMBDA col : HasColumn(df, col))
             grouped == GroupByAgg(df, valid_group_by, agg_spec.column, agg_spec.function)
         IN  IF valid_group_by = <<>> THEN <<>>
             ELSE CASE query_type = "comparison" ->
                          <<ResultEntry(dataset_path, "grouped", grouped)>>
                    [] query_type = "trend_analysis" ->
                          IF "year" \in Range(valid_group_by)
                          THEN <<ResultEntry(dataset_path, "trend", SortByYear(grouped))>>
                          ELSE <<>>
                    [] query_type = "ranking" ->
                          <<ResultEntry(dataset_path, "ranked",
                                        SortValues(grouped, agg_spec.column, FALSE))>>
                    [] OTHER ->
                          <<ResultEntry(dataset_path, "aggregated", grouped)>>
    ELSE <<ResultEntry(dataset_path, "total",
                       Agg(IF agg_spec.function \in Functions THEN agg_spec.function ELSE "sum",
                           Column(df, agg_spec.column)))>>

RECURSIVE _perform_aggregation(_, _, _)
_perform_aggregation(datasets, agg_spec, query_type) ==
    IF datasets = <<>> THEN <<>>
    ELSE AggregateOne(datasets[1].path, datasets[1].df, agg_spec, query_type)
         \o _perform_aggregation(Tail(datasets), agg_spec, query_type)

(* dict.update: a key that is there keeps its place and gets the new value *)
RECURSIVE Update(_, _)
Update(data, entries) ==
    IF entries = <<>> THEN data
    ELSE LET e == entries[1]
             at == {k \in 1..Len(data) : data[k].dataset = e.dataset /\ data[k].tag = e.tag}
         IN  Update(IF at = {} THEN Append(data, e)
                    ELSE [data EXCEPT ![CHOOSE k \in at : TRUE] = e],
                    Tail(entries))

(***************************************************************************)
(* QueryEngine._perform_joins                                              *)
(***************************************************************************)
RECURSIVE Flatten(_)
Flatten(lists) == IF lists = <<>> THEN <<>> ELSE lists[1] \o Flatten(Tail(lists))

(* the row of the result for a left and a right row, either of which may   *)
(* be missing; renamed are the names the other columns of right get        *)
Joined(left, on, others, renamed, lrow, rrow) ==
    [c \in Range(left.columns) \cup Range(renamed) |->
        IF c \in Range(left.columns)
        THEN (IF lrow # None THEN lrow[1][c]
              ELSE IF c \in Range(on) THEN rrow[1][c] ELSE NaN)
        ELSE (IF rrow = None THEN NaN
              ELSE rrow[1][others[CHOOSE k \in 1..Len(others) : renamed[k] = c]])]

PairsOf(left, on, others, renamed, ls, rs) ==
    IF rs = <<>>
    THEN [i \in 1..Len(ls) |-> Joined(left, on, others, renamed, Some(ls[i]), None)]
    ELSE IF ls = <<>>
    THEN [j \in 1..Len(rs) |-> Joined(left, on, others, renamed, None, Some(rs[j]))]
    ELSE Flatten([i \in 1..Len(ls) |->
            [j \in 1..Len(rs) |->
                Joined(left, on, others, renamed, Some(ls[i]), Some(rs[j]))]])

Renamed(left, others) ==
    [k \in 1..Len(others) |->
        IF HasColumn(left, others[k]) THEN others[k] \o "_y" ELSE others[k]]

MergeRows(left, right, on, others, ordered) ==
    Flatten([g \in 1..Len(ordered) |->
        PairsOf(left, on, others, Renamed(left, others),
                SelectSeq(left.rows, LAMBDA r : KeyOf(r, on) = ordered[g]),
                SelectSeq(right.rows, LAMBDA r : KeyOf(r, on) = ordered[g]))])

Others(right, on) == SelectSeq(right.columns, LAMBDA c : c \notin Range(on))

(* pd.merge(left, right, on=on, how='outer', suffixes=('', '_y')): the     *)
(* keys in ascending order, per key the pairs of a left and a right row, a *)
(* row without partner filled with NaN; a column of right that left has    *)
(* too, and that is no key, gets the suffix                                *)
Merge(left, right, on) ==
    DataFrame(left.columns \o Renamed(left, Others(right, on)),
              MergeRows(left, right, on, Others(right, on),
                        Ascending(on, {KeyOf(left.rows[k], on) : k \in 1..Len(left.rows)}
                                      \cup {KeyOf(right.rows[k], on) : k \in 1..Len(right.rows)})))

RECURSIVE MergeAll(_, _, _)
MergeAll(result, dataset_list, join_keys) ==
    IF dataset_list = <<>> THEN result
    ELSE MergeAll(Merge(result, dataset_list[1], join_keys), Tail(dataset_list), join_keys)

_perform_joins(datasets, join_specs) ==
    LET dataset_list == [k \in 1..Len(datasets) |-> datasets[k].df]
        common_columns == {c \in Range(dataset_list[1].columns) :
                              \A k \in 2..Len(dataset_list) : HasColumn(dataset_list[k], c)}
        join_keys == SelectSeq(<<"state", "year">>, LAMBDA key : key \in common_columns)
    IN  IF Len(dataset_list) < 2
        THEN (IF dataset_list # <<>> THEN dataset_list[1] ELSE DataFrame(<<>>, <<>>))
        ELSE IF join_keys = <<>> THEN dataset_list[1]
        ELSE MergeAll(dataset_list[1], Tail(dataset_list), join_keys)

(***************************************************************************)
(* QueryEngine._calculate_statistics: the part of it the answer uses       *)
(***************************************************************************)
RECURSIVE TotalRecords(_)
TotalRecords(data) ==
    IF data = <<>> THEN 0
    ELSE (IF IsDataFrame(data[1]) THEN Len(data[1].value.rows) ELSE 0)
         + TotalRecords(Tail(data))

_calculate_statistics(data) == [total_records |-> TotalRecords(data)]

(***************************************************************************)
(* QueryEngine._execute_operations                                         *)
(* fetch is what DataHandler.fetch_data returns in this call, per dataset  *)
(* path: None or a DataFrame.  data_cache maps the paths memoized to their *)
(* tables (the code's key "<category>_<name>" names the path).  The result *)
(* carries, besides results, the data_cache afterwards and the paths       *)
(* fetch_data was called for, in order.                                    *)
(***************************************************************************)
Category(dataset_path) ==
    IF dataset_path \in {"agriculture.crop_production", "agriculture.state_wise_production"}
    THEN "agriculture" ELSE "meteorology"

Clean(dataset_path, df) ==
    IF Category(dataset_path) = "agriculture" THEN clean_agricultural_data(df)
    ELSE clean_rainfall_data(df)

Put(dict, key, value) ==
    [k \in (DOMAIN dict) \cup {key} |-> IF k = key THEN value ELSE dict[k]]

Dataset(dataset_path, df) == [path |-> dataset_path, df |-> df]

(* a loading that takes a table without rows like any other *)
LoadOne_KeepEmpty(loaded, dataset_path, fetch) ==
    IF dataset_path \in DOMAIN loaded.data_cache
    THEN [loaded EXCEPT !.datasets =
             Append(@, Dataset(dataset_path, loaded.data_cache[dataset_path]))]
    ELSE IF fetch[dataset_path] # None
    THEN [datasets |-> Append(loaded.datasets,
                              Dataset(dataset_path, Clean(dataset_path, fetch[dataset_path][1]))),
          data_cache |-> Put(loaded.data_cache, dataset_path,
                             Clean(dataset_path, fetch[dataset_path][1])),
          fetched |-> Append(loaded.fetched, dataset_path)]
    ELSE [loaded EXCEPT !.fetched = Append(@, dataset_path)]

(* a loading that keeps no table for the requests to come *)
LoadOne_Forgetful(loaded, dataset_path, fetch) ==
    IF dataset_path \in DOMAIN loaded.data_cache
    THEN [loaded EXCEPT !.datasets =
             Append(@, Dataset(dataset_path, loaded.data_cache[dataset_path]))]
    ELSE IF fetch[dataset_path] # None /\ ~IsEmpty(fetch[dataset_path][1])
    THEN [datasets |-> Append(loaded.datasets,
                              Dataset(dataset_path, Clean(dataset_path, fetch[dataset_path][1]))),
          data_cache |-> loaded.data_cache,
          fetched |-> Append(loaded.fetched, dataset_path)]
    ELSE [loaded EXCEPT !.fetched = Append(@, dataset_path)]

(* one round of the loop that loads the datasets *)
LoadOne(loaded, dataset_path, fetch) ==
    IF dataset_path \in DOMAIN loaded.data_cache
    THEN [loaded EXCEPT !.datasets =
             Append(@, Dataset(dataset_path, loaded.data_cache[dataset_path]))]
    ELSE IF fetch[dataset_path] # None /\ ~IsEmpty(fetch[dataset_path][1])
    THEN [datasets |-> Append(loaded.datasets,
                              Dataset(dataset_path, Clean(dataset_path, fetch[dataset_path][1]))),
          data_cache |-> Put(loaded.data_cache, dataset_path,
                             Clean(dataset_path, fetch[dataset_path][1])),
          fetched |-> Append(loaded.fetched, dataset_path)]
    ELSE [loaded EXCEPT !.fetched = Append(@, dataset_path)]

RECURSIVE LoadDatasets(_, _, _)
LoadDatasets(datasets_needed, loaded, fetch) ==
    IF datasets_needed = <<>> THEN loaded
    ELSE LoadDatasets(Tail(datasets_needed), LoadOne(loaded, Head(datasets_needed), fetch),
                      fetch)

Filtered(datasets, filters) ==
    [k \in 1..Len(datasets) |->
        Dataset(datasets[k].path, _apply_filters(datasets[k].df, filters))]

RECURSIVE Aggregated(_, _, _, _)
Aggregated(data, filtered_datasets, aggregations, query_type) ==
    IF aggregations = <<>> THEN data
    ELSE Aggregated(Update(data, _perform_aggregation(filtered_datasets, Head(aggregations),
                                                      query_type)),
                    filtered_datasets, Tail(aggregations), query_type)

WithJoins(data, filtered_datasets, joins) ==
    IF Len(filtered_datasets) > 1 /\ joins # <<>>
    THEN Update(data, <<ResultEntry("", "joined", _perform_joins(filtered_datasets, joins))>>)
    ELSE data

Metadata(datasets) ==
    [k \in 1..Len(datasets) |->
        [dataset |-> datasets[k].path,
         shape |-> <<Len(datasets[k].df.rows), Len(datasets[k].df.columns)>>]]

Results(data, loaded) ==
    [data |-> data,
     metadata |-> Metadata(loaded.datasets),
     statistics |-> _calculate_statistics(data),
     data_cache |-> loaded.data_cache,
     fetched |-> loaded.fetched]

Computed(operations, loaded, filtered_datasets) ==
    Results(WithJoins(Aggregated(<<>>, filtered_datasets, operations.aggregations,
                                 operations.query_type),
                      filtered_datasets, operations.joins),
            loaded)

AfterLoading(operations, loaded) ==
    IF loaded.datasets = <<>> THEN Results(<<>>, loaded)
    ELSE Computed(operations, loaded, Filtered(loaded.datasets, operations.filters))

_execute_operations(operations, memo, fetch) ==
    AfterLoading(operations,
            LoadDatasets(operations.datasets_needed,
                         [datasets |-> <<>>, data_cache |-> memo, fetched |-> <<>>], fetch))

(***************************************************************************)
(* QueryEngine._generate_response                                          *)
(* An answer is the sequence of its parts, each the text of an f-string    *)
(* and the values filled in.                                               *)
(***************************************************************************)
Sentence(template, args) == [template |-> template, args |-> args]

(* the first DataFrame of results['data'] whose key holds the tag *)
FirstTagged(data, tag) ==
    LET at == {k \in 1..Len(data) : IsDataFrame(data[k]) /\ data[k].tag = tag}
    IN  IF at = {} THEN None ELSE Some(data[Min(at)].value)

(* entities = {e.entity_type: e.value for e in analysis.entities}: the     *)
(* value of the last entity of the type, or the default                    *)
EntityOr(entities, type, default) ==
    LET at == {k \in 1..Len(entities) : entities[k].entity_type = type}
    IN  IF at = {} THEN default ELSE entities[CHOOSE k \in at : \A j \in at : j <= k].value

(* [col for col in df.columns if col not in ['state', 'year', 'crop']] *)
MetricCol(df) == SelectSeq(df.columns, LAMBDA col : col \notin {"state", "year", "crop"})

(* Series.unique(): the values in the order of their first appearance *)
RECURSIVE Unique(_)
Unique(values) ==
    IF values = <<>> THEN <<>>
    ELSE LET front == Unique(SubSeq(values, 1, Len(values) - 1))
         IN  IF values[Len(values)] \in Range(front) THEN front
             ELSE Append(front, values[Len(values)])

(* f"{val:,.2f}": "nan", "inf", or the sign, the digits of the whole part  *)
(* in groups of three and the hundredths, the value being rounded to the   *)
(* nearest hundredth, a tie going to the even one                          *)
RECURSIVE Thousands(_)
Thousands(n) == IF n < 1000 THEN <<n>> ELSE Append(Thousands(n \div 1000), n % 1000)

Hundredths(x) ==
    LET twice == (2 * 100 * Abs(x.num)) \div x.den
        exact == (2 * 100 * Abs(x.num)) % x.den = 0
        down == twice \div 2
    IN  IF twice % 2 = 0 THEN down
        ELSE IF ~exact THEN down + 1
        ELSE IF down % 2 = 0 THEN down ELSE down + 1

Format2(cell) ==
    IF cell = NaN THEN [text |-> "nan", negative |-> FALSE, whole |-> <<>>, hundredths |-> 0]
    ELSE IF cell[1].den = 0
    THEN [text |-> "inf", negative |-> cell[1].num < 0, whole |-> <<>>, hundredths |-> 0]
    ELSE [text |-> "number", negative |-> cell[1].num < 0,
          whole |-> Thousands(Hundredths(cell[1]) \div 100),
          hundredths |-> Hundredths(cell[1]) % 100]

FirstOfState(df, state, metric) ==
    SelectSeq(df.rows, LAMBDA row : row.state = state)[1][metric]

CompareStates(df, states, metric) ==
    IF CellGreater(FirstOfState(df, states[1], metric), FirstOfState(df, states[2], metric))
    THEN Sentence("Based on the data, {state1} has higher {metric} ({val1:,.2f}) compared to {state2} ({val2:,.2f}).",
                  <<states[1], metric, Format2(FirstOfState(df, states[1], metric)),
                    states[2], Format2(FirstOfState(df, states[2], metric))>>)
    ELSE Sentence("Based on the data, {state2} has higher {metric} ({val2:,.2f}) compared to {state1} ({val1:,.2f}).",
                  <<states[2], metric, Format2(FirstOfState(df, states[2], metric)),
                    states[1], Format2(FirstOfState(df, states[1], metric))>>)

ComparisonFallback ==
    Sentence("Here's the comparison data you requested. Please refer to the table below for detailed values.", <<>>)

_generate_comparison_answer(entities, results) ==
    LET comparison_data == FirstTagged(results.data, "grouped")
    IN  IF comparison_data = None \/ IsEmpty(comparison_data[1])
        THEN Sentence("I couldn't find sufficient data to make the requested comparison.", <<>>)
        ELSE IF EntityOr(entities, "state", "") # ""
                /\ Len(Unique(Column(comparison_data[1], "state"))) >= 2
                /\ MetricCol(comparison_data[1]) # <<>>
        THEN CompareStates(comparison_data[1], Unique(Column(comparison_data[1], "state")),
                           MetricCol(comparison_data[1])[1])
        ELSE ComparisonFallback

RankingSentence(df, metric, crop) ==
    IF HasColumn(df, "state")
    THEN Sentence("Based on the available data, {top[state]} has the highest {metric} [for {crop} ]({top[metric]:,.2f}), while {bottom[state]} has the lowest ({bottom[metric]:,.2f}).",
                  <<df.rows[1].state, metric,
                    IF crop # "crop" THEN Some(crop) ELSE None,
                    df.rows[1][metric], df.rows[Len(df.rows)].state,
                    df.rows[Len(df.rows)][metric]>>)
    ELSE Sentence("Based on the available data, ", <<>>)

_generate_ranking_answer(entities, results) ==
    LET ranking_data == FirstTagged(results.data, "ranked")
    IN  IF ranking_data = None \/ IsEmpty(ranking_data[1])
        THEN Sentence("I couldn't find sufficient data to generate the requested ranking.", <<>>)
        ELSE IF MetricCol(ranking_data[1]) # <<>>
        THEN RankingSentence(ranking_data[1], MetricCol(ranking_data[1])[1],
                             EntityOr(entities, "crop", "crop"))
        ELSE Sentence("Here's the ranking data you requested. Please refer to the table below for detailed information.", <<>>)

(* direction and change of the trend from the first to the last value;    *)
(* either may be NaN, and then no comparison holds                         *)
Direction(first_value, last_value) ==
    IF CellGreater(last_value, first_value) THEN "increasing"
    ELSE IF CellGreater(first_value, last_value) THEN "decreasing"
    ELSE "stable"

Change(first_value, last_value) ==
    IF CellGreater(last_value, first_value)
    THEN Times(Divide(Minus(last_value[1], first_value[1]), first_value[1]), Num(100))
    ELSE IF CellGreater(first_value, last_value)
    THEN Times(Divide(Minus(first_value[1], last_value[1]), first_value[1]), Num(100))
    ELSE Num(0)

(* f"{change:.1f}": "inf", or the tenths nearest to change, a tie going to *)
(* the even one                                                            *)
Format1(x) ==
    IF x.den = 0 THEN [inf |-> TRUE, tenths |-> 0]
    ELSE LET twice == (2 * 10 * x.num) \div x.den
             exact == (2 * 10 * x.num) % x.den = 0
             down == twice \div 2
         IN  [inf |-> FALSE,
              tenths |-> IF twice % 2 = 0 THEN down
                         ELSE IF ~exact THEN down + 1
                         ELSE IF down % 2 = 0 THEN down ELSE down + 1]

TrendSentence(metric, crop, state, first_value, last_value) ==
    Sentence("The trend analysis shows that {metric} for {crop}[ in {state}] has been {direction} over the analyzed period[, with a change of approximately {change:.1f}%].",
             <<metric, crop,
               IF state # "" THEN Some(state) ELSE None,
               Direction(first_value, last_value),
               IF Less(Num(0), Change(first_value, last_value))
               THEN Some(Format1(Change(first_value, last_value))) ELSE None>>)

_generate_trend_answer(entities, results) ==
    LET trend_data == FirstTagged(results.data, "trend")
    IN  IF trend_data = None \/ IsEmpty(trend_data[1])
        THEN Sentence("I couldn't find sufficient data to analyze the requested trend.", <<>>)
        ELSE IF HasColumn(trend_data[1], "year") /\ MetricCol(trend_data[1]) # <<>>
        THEN TrendSentence(MetricCol(trend_data[1])[1],
                           EntityOr(entities, "crop", "the metric"),
                           EntityOr(entities, "state", ""),
                           trend_data[1].rows[1][MetricCol(trend_data[1])[1]],
                           trend_data[1].rows[Len(trend_data[1].rows)][MetricCol(trend_data[1])[1]])
        ELSE Sentence("Here's the trend analysis data. Please refer to the chart and table below for detailed information.", <<>>)

_generate_correlation_answer(entities, results) ==
    Sentence("I've analyzed the correlation between the agricultural and meteorological data. Please refer to the detailed analysis below.", <<>>)

_generate_general_answer(entities, results) ==
    Sentence("Here's the information I found based on your query. Please refer to the data and visualizations below for detailed insights.", <<>>)

TypeAnswer(analysis, results) ==
    CASE analysis.query_type = "comparison" ->
            _generate_comparison_answer(analysis.entities, results)
      [] analysis.query_type = "ranking" ->
            _generate_ranking_answer(analysis.entities, results)
      [] analysis.query_type = "trend_analysis" ->
            _generate_trend_answer(analysis.entities, results)
      [] analysis.query_type = "correlation" ->
            _generate_correlation_answer(analysis.entities, results)
      [] OTHER ->
            _generate_general_answer(analysis.entities, results)

_generate_natural_answer(analysis, results) ==
    IF results.data = <<>>
    THEN <<Sentence("I couldn't find relevant data to answer your query. Please try rephrasing your question or check if the requested data is available.",
                    <<>>)>>
    ELSE <<TypeAnswer(analysis, results)>>
         \o (IF results.statistics.total_records > 0
             THEN <<Sentence("This analysis is based on {total_records} data records.",
                             <<results.statistics.total_records>>)>>
             ELSE <<>>)

(* QueryEngine._format_data_for_frontend: a DataFrame becomes its columns, *)
(* its records and its shape; a scalar stays                               *)
_format_data_for_frontend(data) ==
    [k \in 1..Len(data) |->
        IF IsDataFrame(data[k])
        THEN [data[k] EXCEPT !.value = [columns |-> @.columns,
                                        data |-> @.rows,
                                        shape |-> <<Len(@.rows), Len(@.columns)>>]]
        ELSE data[k]]

(* QueryEngine._generate_citations: one citation for each dataset of the  *)
(* metadata, in their order                                                *)
_generate_citations(metadata) ==
    [k \in 1..Len(metadata) |->
        [dataset |-> metadata[k].dataset, records_analyzed |-> metadata[k].shape[1]]]

(***************************************************************************)
(* QueryEngine._calculate_data_freshness                                   *)
(* last_updated is None (a missing or empty value, or 'Unknown'), or       *)
(* <<text>>, text being [form, year, month, day, hour]: the form "date" is *)
(* 'YYYY-MM-DD', "datetime" is 'YYYY-MM-DDTHH:00:00', "other" any text     *)
(* that is neither.  today is [year, month, day, hour] of datetime.now().  *)
(***************************************************************************)
IsLeap(y) == y % 4 = 0 /\ (y % 100 # 0 \/ y % 400 = 0)

DaysInMonth(y, m) ==
    CASE m = 2 -> IF IsLeap(y) THEN 29 ELSE 28
      [] m \in {4, 6, 9, 11} -> 30
      [] OTHER -> 31

RECURSIVE DaysBeforeMonth(_, _)
DaysBeforeMonth(y, m) ==
    IF m = 1 THEN 0 ELSE DaysBeforeMonth(y, m - 1) + DaysInMonth(y, m - 1)

(* date.toordinal() *)
Ordinal(y, m, d) ==
    365 * (y - 1) + ((y - 1) \div 4) - ((y - 1) \div 100) + ((y - 1) \div 400)
        + DaysBeforeMonth(y, m) + d

(* strptime and fromisoformat accept the dates of the calendar only *)
IsDate(text) ==
    /\ text.month \in 1..12
    /\ text.day \in 1..DaysInMonth(text.year, text.month)

(* (datetime.now() - update_date).days: the whole days, rounded down *)
DaysOld(text, today) ==
    ((Ordinal(today.year, today.month, today.day) * 24 + today.hour)
        - (Ordinal(text.year, text.month, text.day) * 24 + text.hour)) \div 24

(* str(n) *)
Str(n) == IF n < 0 THEN "-" \o Decimal(-n) ELSE Decimal(n)

(* buckets that end a day early *)
FreshnessLabel_Early(days_old) ==
    IF days_old = 0 THEN "Current (Today)"
    ELSE IF days_old = 1 THEN "Recent (1 day old)"
    ELSE IF days_old < 7 THEN "Recent (" \o Str(days_old) \o " days old)"
    ELSE IF days_old < 30 THEN "Moderate (" \o Str(days_old) \o " days old)"
    ELSE IF days_old < 365 THEN "Older (" \o Str(days_old) \o " days old)"
    ELSE "Historical (" \o Str(days_old \div 365) \o " year"
             \o (IF days_old \div 365 > 1 THEN "s" ELSE "") \o " old)"

FreshnessLabel(days_old) ==
    IF days_old = 0 THEN "Current (Today)"
    ELSE IF days_old = 1 THEN "Recent (1 day old)"
    ELSE IF days_old <= 7 THEN "Recent (" \o Str(days_old) \o " days old)"
    ELSE IF days_old <= 30 THEN "Moderate (" \o Str(days_old) \o " days old)"
    ELSE IF days_old <= 365 THEN "Older (" \o Str(days_old) \o " days old)"
    ELSE "Historical (" \o Str(days_old \div 365) \o " year"
             \o (IF days_old \div 365 > 1 THEN "s" ELSE "") \o " old)"

_calculate_data_freshness(last_updated, today) ==
    IF last_updated = None THEN "Unknown"
    ELSE IF last_updated[1].form = "other" \/ ~IsDate(last_updated[1]) THEN "Unknown"
    ELSE FreshnessLabel(DaysOld(last_updated[1], today))

(* "cached" and "cache_timestamp" are keys process_query sets later:      *)
(* None while the key is missing                                           *)
_generate_response(original_query, analysis, operations, results) ==
    [success |-> TRUE,
     query |-> original_query,
     intent |-> analysis.intent,
     confidence |-> analysis.confidence,
     answer |-> _generate_natural_answer(analysis, results),
     data |-> _format_data_for_frontend(results.data),
     citations |-> _generate_citations(results.metadata),
     cached |-> None,
     cache_timestamp |-> None]

(* the response of the except branch of process_query, error being str(e) *)
ErrorResponse(error) ==
    [success |-> FALSE,
     error |-> error,
     answer |-> <<Sentence("I apologize, but I encountered an error while processing your query. Please try rephrasing your question.", <<>>)>>,
     data |-> <<>>,
     citations |-> <<>>,
     cached |-> Some(FALSE)]

(***************************************************************************)
(* QueryEngine.process_query                                               *)
(* self is the engine with its data handler: [query_cache,                 *)
(* query_cache_file, data_cache].  env is what the collaborators do in     *)
(* this call: ents (doc.ents of spaCy), raises (the step that raises, or   *)
(* "none"), fetch (see _execute_operations) and save (see                  *)
(* _save_query_cache).  t and current_year are datetime.now().             *)
(***************************************************************************)
Steps == {"analyze", "map", "cache_get", "execute", "generate", "cache_put"}

JStrs(values) == JList([k \in 1..Len(values) |-> JStr(values[k])])

JInts(values) == JList([k \in 1..Len(values) |-> JInt(values[k])])

(* the keys of operations['filters'] in the order the loop over the        *)
(* entities inserts them                                                   *)
RECURSIVE FilterKeys(_, _)
FilterKeys(entities, seen) ==
    IF entities = <<>> THEN seen
    ELSE FilterKeys(Tail(entities),
                    IF /\ Head(entities).entity_type \in {"state", "crop", "year"}
                       /\ \A k \in 1..Len(seen) : seen[k] # Head(entities).entity_type
                    THEN Append(seen, Head(entities).entity_type) ELSE seen)

FiltersDict(entities, filters) ==
    LET filter_keys == FilterKeys(entities, <<>>)
    IN  JDict([k \in 1..Len(filter_keys) |->
                  <<filter_keys[k],
                    IF filter_keys[k] = "year" THEN JInts(filters.year[1])
                    ELSE JStrs(filters[filter_keys[k]][1])>>]
              \o (IF filters.year_range = None THEN <<>>
                  ELSE << <<"year_range", JInts(filters.year_range[1])>> >>))

OperationsDict(entities, operations) ==
    JDict(<< <<"query_type", JStr(operations.query_type)>>,
             <<"datasets_needed", JStrs(operations.datasets_needed)>>,
             <<"filters", FiltersDict(entities, operations.filters)>>,
             <<"aggregations",
               JList([k \in 1..Len(operations.aggregations) |->
                        JDict(<< <<"column", JStr(operations.aggregations[k].column)>>,
                                 <<"function", JStr(operations.aggregations[k].function)>>,
                                 <<"group_by", JStrs(operations.aggregations[k].group_by)>> >>)])>>,
             <<"joins", JList(operations.joins)>>,
             <<"output_format", JStr(operations.output_format)>> >>)

CacheKeyParams(query, analysis, operations) ==
    JDict(<< <<"query", JText(query)>>,
             <<"intent", JText(analysis.intent)>>,
             <<"entities",
               JList([k \in 1..Len(analysis.entities) |->
                        JDict(<< <<"type", JStr(analysis.entities[k].entity_type)>>,
                                 <<"value", JStr(analysis.entities[k].value)>> >>)])>>,
             <<"operations", OperationsDict(analysis.entities, operations)>> >>)

(* a hit that hands the stored response back as it was stored             *)
MarkCached_Untouched(cache, query_params, t) == cache

(* cached_result['cached'] = True; cached_result['cache_timestamp'] = now:  *)
(* cached_result is the dict the cache entry holds, so the entry changes too *)
MarkCached(cache, query_params, t) ==
    LET at == Min(KeyIndex(cache, _get_query_hash(query_params)))
    IN  [cache EXCEPT ![at].result.cached = Some(TRUE),
                      ![at].result.cache_timestamp = Some(t)]

(* self as a call of process_query finds it: nothing done yet *)
Engine(cache, file, memo) ==
    [query_cache |-> cache, query_cache_file |-> file, data_cache |-> memo,
     trace |-> <<>>, fetched |-> <<>>]

(* the step a call enters next *)
Enter(self, step) == [self EXCEPT !.trace = Append(@, step)]

Returned(self, response) ==
    [ret |-> Some(response), raised |-> None,
     query_cache |-> self.query_cache, query_cache_file |-> self.query_cache_file,
     data_cache |-> self.data_cache, trace |-> self.trace, fetched |-> self.fetched]

Raised(self, step) ==
    [ret |-> None, raised |-> Some(step),
     query_cache |-> self.query_cache, query_cache_file |-> self.query_cache_file,
     data_cache |-> self.data_cache, trace |-> self.trace, fetched |-> self.fetched]

(* The body of the try block, statement by statement: each operator is    *)
(* given what the statements before it have computed.                      *)

(* response['cached'] = False; cache_query_result(...); return response    *)
StoreAndReturn(self, t, env, cache_key_params, response) ==
    Returned([Enter(self, "cache_put") EXCEPT
                 !.query_cache = cache_query_result(self.query_cache, cache_key_params, response, t),
                 !.query_cache_file =
                     _save_query_cache(self.query_cache_file,
                         cache_query_result(self.query_cache, cache_key_params, response, t),
                         env.save)],
             response)

(* a call that stores the error response when the generation raises *)
Generate_StoreFailure(self, query, t, env, analysis, operations, cache_key_params, results) ==
    IF env.raises = "generate"
    THEN Raised(Enter([self EXCEPT !.data_cache = results.data_cache,
                                   !.fetched = results.fetched,
                                   !.query_cache =
                                       cache_query_result(@, cache_key_params,
                                                          ErrorResponse(env.raises), t)],
                      "generate"), env.raises)
    ELSE IF env.raises = "cache_put"
    THEN Raised(Enter(Enter([self EXCEPT !.data_cache = results.data_cache,
                                         !.fetched = results.fetched], "generate"),
                      "cache_put"), env.raises)
    ELSE StoreAndReturn(Enter([self EXCEPT !.data_cache = results.data_cache,
                                           !.fetched = results.fetched], "generate"),
                        t, env, cache_key_params,
                        [_generate_response(query, analysis, operations, results)
                            EXCEPT !.cached = Some(FALSE)])

(* response = self._generate_response(...) *)
Generate(self, query, t, env, analysis, operations, cache_key_params, results) ==
    IF env.raises = "generate"
    THEN Raised(Enter([self EXCEPT !.data_cache = results.data_cache,
                                   !.fetched = results.fetched], "generate"), env.raises)
    ELSE IF env.raises = "cache_put"
    THEN Raised(Enter(Enter([self EXCEPT !.data_cache = results.data_cache,
                                         !.fetched = results.fetched], "generate"),
                      "cache_put"), env.raises)
    ELSE StoreAndReturn(Enter([self EXCEPT !.data_cache = results.data_cache,
                                           !.fetched = results.fetched], "generate"),
                        t, env, cache_key_params,
                        [_generate_response(query, analysis, operations, results)
                            EXCEPT !.cached = Some(FALSE)])

(* return cached_result, marked as cached *)
ReturnCached(self, cache_key_params, marked) ==
    Returned([self EXCEPT !.query_cache = marked],
             marked[Min(KeyIndex(marked, _get_query_hash(cache_key_params)))].result)

(* a call that enters the execution before it looks at cached_result *)
Execute_Eager(self, query, t, env, analysis, operations, cache_key_params, looked) ==
    IF looked.ret # None
    THEN ReturnCached(Enter(self, "execute"), cache_key_params,
                      MarkCached(looked.query_cache, cache_key_params, t))
    ELSE IF env.raises = "execute"
    THEN Raised(Enter([self EXCEPT !.query_cache = looked.query_cache], "execute"), env.raises)
    ELSE Generate(Enter([self EXCEPT !.query_cache = looked.query_cache], "execute"),
                  query, t, env, analysis,
                  operations, cache_key_params,
                  _execute_operations(operations, self.data_cache, env.fetch))

(* if cached_result: ...; results = self._execute_operations(operations) *)
Execute(self, query, t, env, analysis, operations, cache_key_params, looked) ==
    IF looked.ret # None
    THEN ReturnCached(self, cache_key_params, MarkCached(looked.query_cache, cache_key_params, t))
    ELSE IF env.raises = "execute"
    THEN Raised(Enter([self EXCEPT !.query_cache = looked.query_cache], "execute"), env.raises)
    ELSE Generate(Enter([self EXCEPT !.query_cache = looked.query_cache], "execute"),
                  query, t, env, analysis,
                  operations, cache_key_params,
                  _execute_operations(operations, self.data_cache, env.fetch))

(* cached_result = self.data_handler.get_cached_query_result(cache_key_params) *)
LookUp(self, query, t, env, analysis, operations, cache_key_params) ==
    Execute(Enter(self, "cache_get"), query, t, env, analysis, operations, cache_key_params,
            get_cached_query_result(self.query_cache, cache_key_params, t))

(* cache_key_params = {...} *)
MakeKey(self, query, t, env, analysis, operations) ==
    LookUp(self, query, t, env, analysis, operations,
           CacheKeyParams(query, analysis, operations))

(* operations = self.query_mapper.map_query_to_operations(analysis) *)
MapQuery(self, query, t, current_year, env, analysis) ==
    MakeKey(Enter(self, "map"), query, t, env, analysis, map_query_to_operations(analysis, current_year))

(* analysis = self.nlp_processor.analyze_query(query) *)
TryBlock(self, query, t, current_year, env) ==
    IF env.raises = "analyze" THEN Raised(Enter(self, "analyze"), env.raises)
    ELSE IF env.raises = "map" THEN Raised(Enter(Enter(self, "analyze"), "map"), env.raises)
    ELSE IF env.raises = "cache_get"
    THEN Raised(Enter(Enter(Enter(self, "analyze"), "map"), "cache_get"), env.raises)
    ELSE MapQuery(Enter(self, "analyze"), query, t, current_year, env,
                  analyze_query(query, env.ents))

(* except Exception as e: return the error response, error being str(e) *)
Except(tried) ==
    IF tried.raised # None
    THEN [tried EXCEPT !.ret = Some(ErrorResponse(tried.raised[1])), !.raised = None]
    ELSE tried

(* process_query without its except branch: what the try block raises     *)
(* leaves the method                                                       *)
process_query_Unguarded(self, query, t, current_year, env) ==
    TryBlock(self, query, t, current_year, env)

process_query(self, query, t, current_year, env) ==
    Except(TryBlock(self, query, t, current_year, env))

(***************************************************************************)
(* The cache a run starts with.  DataHandler.__init__ loads the snapshot   *)
(* an earlier run saved (_load_query_cache): here the snapshot of a run    *)
(* that answered, at the times 1, 2, ..., one general question each        *)
(* second, none of which found data.                                       *)
(***************************************************************************)
NoteName(i) ==
    "k" \o DigitWords[(i \div 100) + 1] \o DigitWords[((i \div 10) % 10) + 1]
        \o DigitWords[(i % 10) + 1]

NoteQuery(i) == <<"note", NoteName(i)>>

NoFetch == [d \in {"agriculture.crop_production", "agriculture.state_wise_production",
                   "meteorology.rainfall_data", "meteorology.monthly_rainfall"} |-> None]

QuietEnv == [ents |-> <<>>, raises |-> "none", fetch |-> NoFetch, save |-> "written"]

NoteParams(i) ==
    LET analysis == analyze_query(NoteQuery(i), <<>>)
    IN  CacheKeyParams(NoteQuery(i), analysis, map_query_to_operations(analysis, 2025))

NoteEntry(i) ==
    process_query(Engine(<<>>, None, <<>>),
                  NoteQuery(i), i, 2025, QuietEnv).query_cache[1]

NoteKeys == [i \in 1..(CacheLimit + 2) |-> NoteParams(i)]

NoteEntries == [i \in 1..(CacheLimit + 2) |-> NoteEntry(i)]

NoteResults == [i \in 1..(CacheLimit + 2) |-> NoteEntries[i].result]

(* the cache after the first n <= CacheLimit of these questions: each put  *)
(* of a new key appends its entry and, the cache holding no more than      *)
(* CacheLimit entries, removes none                                        *)
Filled(n) == SubSeq(NoteEntries, 1, n)

Idle == [op |-> "none"]

(***************************************************************************)
(* Spec: one engine, its requests served one after the other               *)
(***************************************************************************)
EngineQueries ==
    { <<>>, <<"rice", "production", "last", "5", "years">> }

(* what fetch_data may return in a call: the files of the registry hold    *)
(* these tables, or a file is missing; the registry of DataHandler has no  *)
(* dataset monthly_rainfall, which is therefore never found                *)
SampleRow(state, crop, year_, metric, value) ==
    [c \in {"state", "crop", "year", metric} |->
        CASE c = "state" -> state
          [] c = "crop" -> crop
          [] c = "year" -> Some(year_)
          [] OTHER -> Some(Num(value))]

SampleTable(dataset_path) ==
    CASE dataset_path = "agriculture.crop_production" ->
            DataFrame(<<"state", "crop", "year", "production">>,
                      <<SampleRow("Punjab", "Rice", 2024, "production", 3),
                        SampleRow("Kerala", "Rice", 2025, "production", 1)>>)
      [] dataset_path = "agriculture.state_wise_production" ->
            DataFrame(<<"state", "crop", "year", "production">>,
                      <<SampleRow("Punjab", "Rice", 2023, "production", 2)>>)
      [] OTHER ->
            DataFrame(<<"state", "crop", "year", "rainfall">>,
                      <<SampleRow("Kerala", "Rice", 2024, "rainfall", 0)>>)

AllFetched ==
    [d \in DOMAIN NoFetch |->
        IF d = "meteorology.monthly_rainfall" THEN None ELSE Some(SampleTable(d))]

(* one file without rows, one missing *)
SomeFetched ==
    [AllFetched EXCEPT
        !["agriculture.crop_production"] =
            Some(DataFrame(<<"state", "crop", "year", "production">>, <<>>)),
        !["meteorology.rainfall_data"] = None]

(* what the collaborators may do in a call: the files are missing, all or  *)
(* some, or they are there, and the snapshot is written or not; or one of  *)
(* the steps raises                                                        *)
Envs ==
    {[ents |-> <<>>, raises |-> "none", fetch |-> f, save |-> s] :
        f \in {NoFetch, SomeFetched, AllFetched}, s \in SaveOutcomes}
    \cup {[ents |-> <<>>, raises |-> r, fetch |-> NoFetch, save |-> "written"] :
        r \in Steps}

(* what the observer notes of a successful response returned for the key  *)
(* h: the last one, the last one that was computed (cached = False), and   *)
(* whether the key has been in the cache ever since                        *)
Note(old, h, response, t, cache) ==
    LET this == [at |-> t, answer |-> response.answer]
        keys == (DOMAIN old) \cup (IF response.success THEN {h} ELSE {})
    IN  [k \in keys |->
            IF k = h /\ response.success
            THEN [last |-> this,
                  computed |-> IF response.cached = Some(FALSE) THEN Some(this)
                               ELSE IF k \in DOMAIN old THEN old[k].computed ELSE None,
                  intact |-> KeyIndex(cache, k) # {}]
            ELSE [old[k] EXCEPT !.intact = @ /\ KeyIndex(cache, k) # {}]]

(* the cache file an earlier run of the server has left, in which the     *)
(* second query was answered one second before this run starts             *)
Loaded ==
    process_query(Engine(<<>>, None, <<>>),
                  <<"rice", "production", "last", "5", "years">>, CacheLimit - 1, 2025,
                  QuietEnv).query_cache

(* DataHandler.__init__: the cache is what _load_query_cache makes of the  *)
(* cache file, which is missing, damaged or the snapshot of the earlier    *)
(* run                                                                     *)
Init ==
    /\ \E file \in {None, Cut(Loaded), Some(Loaded)} :
          /\ query_cache_file = file
          /\ query_cache = _load_query_cache(file)
    /\ now = CacheLimit
    /\ ticks = 0
    /\ year = 2025
    /\ data_cache = <<>>
    /\ call = Idle
    /\ served = <<>>
    /\ threads = <<>>
    /\ nlp = <<>>
    /\ dedup = <<>>
    /\ exec = <<>>
    /\ hashed = <<>>

Calls == IF call.op = "none" THEN 0 ELSE call.n

ProcessQuery ==
    /\ Calls < MaxCalls
    /\ \E query \in EngineQueries, env \in Envs :
        \E analysis \in {analyze_query(query, env.ents)} :
        \E operations \in {map_query_to_operations(analysis, year)} :
        \E h \in {_get_query_hash(CacheKeyParams(query, analysis, operations))} :
        \E out \in {process_query(Engine(query_cache, query_cache_file, data_cache),
                                  query, now, year, env)} :
            /\ query_cache' = out.query_cache
            /\ query_cache_file' = out.query_cache_file
            /\ data_cache' = out.data_cache
            /\ call' = [op |-> "process_query", n |-> Calls + 1, query |-> query,
                        raises |-> env.raises, env |-> env, at |-> now, hash |-> h,
                        operations |-> operations, memo |-> DOMAIN data_cache,
                        trace |-> out.trace, fetched |-> out.fetched,
                        before |-> IF h \in DOMAIN served THEN Some(served[h]) ELSE None,
                        ret |-> out.ret, raised |-> out.raised]
            /\ served' = IF out.ret = None THEN served
                         ELSE Note(served, h, out.ret[1], now, out.query_cache)
            /\ UNCHANGED <<now, ticks, year, threads, nlp, dedup, exec, hashed>>

Tick ==
    \E d \in {1, cache_timeout - 1} :
        /\ ticks < MaxTicks
        /\ now' = now + d
        /\ ticks' = ticks + 1
        /\ UNCHANGED <<query_cache, query_cache_file, year, data_cache, call, served,
                       threads, nlp, dedup, exec, hashed>>

Next == ProcessQuery \/ Tick

Spec == Init /\ [][Next]_vars

(***************************************************************************)
(* Properties of Spec                                                      *)
(***************************************************************************)
Called == call.op = "process_query"

(* the steps whose exception comes before the cache has answered *)
BeforeLookup == {"analyze", "map", "cache_get"}

(* C1: whatever the query and whatever the collaborators do (data absent,  *)
(* any step raising), process_query returns a response with a boolean      *)
(* success and a non-empty answer, and raises nothing.                     *)
C1_AlwaysResponse ==
    Called =>
        /\ call.raised = None
        /\ call.ret # None
        /\ call.ret[1].success \in BOOLEAN
        /\ call.ret[1].answer # <<>>
        /\ \A k \in 1..Len(call.ret[1].answer) : call.ret[1].answer[k].template # ""

(* the cache put raised, after the data had been computed, and the caller  *)
(* got the error response                                                  *)
C1_Witness ==
    /\ Called
    /\ call.raises = "cache_put"
    /\ call.ret # None
    /\ call.ret[1].success = FALSE
    /\ call.ret[1].answer # <<>>

(* C2, as stated: a call for a key at most 3600 s after a successful       *)
(* response for the same key, the key having stayed in the cache, answers  *)
(* with cached = True and the answer of that response.                     *)
C2_AsStated ==
    (/\ Called
     /\ call.raises \notin BeforeLookup
     /\ call.before # None
     /\ call.before[1].intact
     /\ call.at - call.before[1].last.at < cache_timeout)
    => /\ call.ret # None
       /\ call.ret[1].success
       /\ call.ret[1].cached = Some(TRUE)
       /\ call.ret[1].answer = call.before[1].last.answer

(* C2, amended: the 3600 s count from the response that was computed      *)
(* (cached = False), which is when the entry was stored.                   *)
C2_WithinTTLOfComputed ==
    (/\ Called
     /\ call.raises \notin BeforeLookup
     /\ call.before # None
     /\ call.before[1].intact
     /\ call.before[1].computed # None
     /\ call.at - call.before[1].computed[1].at < cache_timeout)
    => /\ call.ret # None
       /\ call.ret[1].success
       /\ call.ret[1].cached = Some(TRUE)
       /\ call.ret[1].answer = call.before[1].computed[1].answer

(* a repeat 3599 s after the computed response, answered from the cache    *)
C2_Witness ==
    /\ Called
    /\ call.before # None
    /\ call.before[1].computed # None
    /\ call.at - call.before[1].computed[1].at = cache_timeout - 1
    /\ call.ret # None
    /\ call.ret[1].cached = Some(TRUE)
    /\ call.ret[1].answer = call.before[1].computed[1].answer

(* C7: the empty query is answered with success = False and a non-empty   *)
(* answer, nothing being raised.                                           *)
C7_EmptyQueryRejected ==
    (Called /\ call.query = <<>>) =>
        /\ call.raised = None
        /\ call.ret # None
        /\ call.ret[1].success = FALSE
        /\ call.ret[1].answer # <<>>

(* C13: a computed response rests on exactly the datasets of the          *)
(* operation spec that were memoized or whose fetch returned rows, the     *)
(* others being skipped; when there is none, the data is empty and the     *)
(* response still has success = True and the answer that says so.          *)
Available ==
    SelectSeq(call.operations.datasets_needed,
              LAMBDA d : \/ d \in call.memo
                         \/ /\ call.env.fetch[d] # None
                            /\ ~IsEmpty(call.env.fetch[d][1]))

Computed_ ==
    /\ Called
    /\ call.raises = "none"
    /\ call.ret # None
    /\ call.ret[1].cached = Some(FALSE)

NoDataAnswer ==
    <<Sentence("I couldn't find relevant data to answer your query. Please try rephrasing your question or check if the requested data is available.",
               <<>>)>>

C13_MissingDatasetsSkipped ==
    Computed_ =>
        /\ call.ret[1].success
        /\ call.ret[1].answer # <<>>
        /\ [k \in 1..Len(call.ret[1].citations) |-> call.ret[1].citations[k].dataset]
               = Available
        /\ \A k \in 1..Len(call.ret[1].data) :
               call.ret[1].data[k].dataset \in Range(Available)
        /\ Available = <<>> =>
               /\ call.ret[1].data = <<>>
               /\ call.ret[1].answer = NoDataAnswer

(* one file without rows and one with: the answer rests on the second *)
C13_Witness ==
    /\ Computed_
    /\ call.env.fetch = SomeFetched
    /\ Available = <<"agriculture.state_wise_production">>
    /\ Len(call.ret[1].data) = 1
    /\ call.ret[1].data[1].dataset = "agriculture.state_wise_production"
    /\ call.ret[1].success

(* C15: a cache file that is missing or damaged leaves the cache empty     *)
(* after construction; a save that fails during a put leaves the entry in  *)
(* the cache and the response what it is when the save succeeds.           *)
C15_LoadFailure ==
    call = Idle =>
        IF query_cache_file # None /\ Len(query_cache_file) = 1
        THEN query_cache = query_cache_file[1]
        ELSE query_cache = <<>>

C15_SaveFailure ==
    (/\ call' # call
     /\ call'.env.save # "written"
     /\ call'.raises = "none") =>
        LET saved == process_query(Engine(query_cache, query_cache_file, data_cache),
                                   call'.query, now, year,
                                   [call'.env EXCEPT !.save = "written"])
        IN  /\ call'.ret = saved.ret
            /\ call'.raised = None
            /\ query_cache' = saved.query_cache
            /\ call'.ret[1].cached = Some(FALSE) =>
                   /\ KeyIndex(query_cache', call'.hash) # {}
                   /\ query_cache'[Min(KeyIndex(query_cache', call'.hash))].result
                          = call'.ret[1]

C15_CacheIOFailuresIgnored == []C15_LoadFailure /\ [][C15_SaveFailure]_vars

(* the cache file was damaged at the start and the save of the first put   *)
(* is cut short: the entry is in the cache, the response is a success      *)
C15_Witness ==
    /\ Called
    /\ call.n = 1
    /\ call.env.save = "cut_short"
    /\ call.ret # None
    /\ call.ret[1].success
    /\ call.ret[1].cached = Some(FALSE)
    /\ KeyIndex(query_cache, call.hash) # {}
    /\ query_cache_file = Cut(query_cache)

(* C16: a hit returns after the look-up: no execution, no fetch, no        *)
(* response generation, no put, the keys and the times of the entries and  *)
(* the cache file as before; a miss goes on to execute, generate and put   *)
(* in this order and returns with cached = False.                          *)
StepsOfHit == <<"analyze", "map", "cache_get">>

StepsOfMiss == <<"analyze", "map", "cache_get", "execute", "generate", "cache_put">>

C16_Step ==
    (call' # call /\ call'.ret # None /\ call'.ret[1].success) =>
        IF call'.ret[1].cached = Some(TRUE)
        THEN /\ call'.trace = StepsOfHit
             /\ call'.fetched = <<>>
             /\ query_cache_file' = query_cache_file
             /\ data_cache' = data_cache
             /\ Len(query_cache') = Len(query_cache)
             /\ \A k \in 1..Len(query_cache) :
                    /\ query_cache'[k].hash = query_cache[k].hash
                    /\ query_cache'[k].timestamp = query_cache[k].timestamp
        ELSE /\ call'.trace = StepsOfMiss
             /\ call'.ret[1].cached = Some(FALSE)

C16_HitSkipsExecution == [][C16_Step]_vars

(* a hit, and before it the miss that stored the entry *)
C16_Witness ==
    /\ Called
    /\ call.n = 2
    /\ call.ret # None
    /\ call.ret[1].cached = Some(TRUE)
    /\ call.trace = StepsOfHit
    /\ call.before # None
    /\ call.before[1].computed # None

(* C23: a request that executes fetches the datasets it needs that are not *)
(* memoized, and no other; it memoizes those whose fetch returned rows and *)
(* no other, leaves the memoized tables as they are, and answers from them *)
(* whatever the files hold by now.                                         *)
Executed(c) ==
    /\ c.op = "process_query"
    /\ c.raises = "none"
    /\ \E k \in 1..Len(c.trace) : c.trace[k] = "execute"

HasRows(fetch, d) == fetch[d] # None /\ ~IsEmpty(fetch[d][1])

C23_Step ==
    (call' # call /\ Executed(call')) =>
        LET needed == Range(call'.operations.datasets_needed)
            memo == DOMAIN data_cache
        IN  /\ Range(call'.fetched) = needed \ memo
            /\ DOMAIN data_cache' =
                   memo \cup {d \in needed \ memo : HasRows(call'.env.fetch, d)}
            /\ \A d \in memo : data_cache'[d] = data_cache[d]
            /\ call'.ret =
                   process_query(Engine(query_cache, query_cache_file, data_cache),
                                 call'.query, now, year,
                                 [call'.env EXCEPT !.fetch =
                                     [d \in DOMAIN @ |-> IF d \in memo THEN None ELSE @[d]]]).ret

C23_MemoizedOnceFetched == [][C23_Step]_vars

(* the second request needs a table the first has memoized and one whose   *)
(* fetch returned nothing: it fetches the second again and not the first   *)
C23_Witness ==
    /\ Called
    /\ call.n = 2
    /\ Executed(call)
    /\ \E d \in Range(call.operations.datasets_needed) :
          /\ d \in call.memo
          /\ d \notin Range(call.fetched)
          /\ call.env.fetch[d] = None
    /\ \E d \in Range(call.operations.datasets_needed) :
          /\ d \notin call.memo
          /\ d \in Range(call.fetched)
    /\ call.ret # None
    /\ call.ret[1].data # <<>>

(***************************************************************************)
(* SpecCache: one thread calling the cache methods of DataHandler          *)
(* directly.  The cache is the empty one of a first run, or the one that   *)
(* CacheLimit puts into the empty cache have left.                         *)
(***************************************************************************)
CacheKeyIds == {1, CacheLimit - 1, CacheLimit, CacheLimit + 1}

InitCache ==
    /\ query_cache \in {<<>>, Filled(CacheLimit)}
    /\ query_cache_file = None
    /\ now = CacheLimit
    /\ ticks = 0
    /\ year = 2025
    /\ data_cache = <<>>
    /\ call = Idle
    /\ served = <<>>
    /\ threads = <<>>
    /\ nlp = <<>>
    /\ dedup = <<>>
    /\ exec = <<>>
    /\ hashed = <<>>

CacheGet ==
    /\ Calls < MaxOps
    /\ \E i \in CacheKeyIds :
        \E out \in {get_cached_query_result(query_cache, NoteKeys[i], now)} :
            /\ query_cache' = out.query_cache
            /\ call' = [op |-> "get", n |-> Calls + 1, hash |-> _get_query_hash(NoteKeys[i]),
                        at |-> now, before |-> query_cache, ret |-> out.ret]
            /\ UNCHANGED <<query_cache_file, now, ticks, year, data_cache, served,
                           threads, nlp, dedup, exec, hashed>>

CachePut ==
    /\ Calls < MaxOps
    /\ \E i \in CacheKeyIds, outcome \in SaveOutcomes :
        \E stored \in {cache_query_result(query_cache, NoteKeys[i], NoteResults[i], now)} :
            /\ query_cache' = stored
            /\ query_cache_file' = _save_query_cache(query_cache_file, stored, outcome)
            /\ call' = [op |-> "put", n |-> Calls + 1, hash |-> _get_query_hash(NoteKeys[i]),
                        at |-> now, before |-> query_cache, ret |-> None,
                        query_params |-> NoteKeys[i], result |-> NoteResults[i]]
            /\ UNCHANGED <<now, ticks, year, data_cache, served, threads, nlp, dedup, exec, hashed>>

NextCache == CacheGet \/ CachePut \/ Tick

SpecCache == InitCache /\ [][NextCache]_vars

(***************************************************************************)
(* Properties of SpecCache                                                 *)
(***************************************************************************)
Hashes(cache) == {cache[i].hash : i \in 1..Len(cache)}

EntryOf(cache, query_hash) == cache[Min(KeyIndex(cache, query_hash))]

(* C3: between the calls of get_cached_query_result and                    *)
(* cache_query_result of one thread, on a cache that was empty once, the   *)
(* cache holds at most 100 entries.                                        *)
C3_AtMostLimit == Len(query_cache) <= CacheLimit

(* a new key was put into a cache that held 100 entries *)
C3_Witness ==
    /\ call.op = "put"
    /\ Len(call.before) = CacheLimit
    /\ call.hash \notin Hashes(call.before)
    /\ call.hash \in Hashes(query_cache)
    /\ Len(query_cache) = CacheLimit

(* C26: after cache_query_result(p, r), with the clock not set back,       *)
(* get_cached_query_result(p) returns r, at once and as long as less than  *)
(* cache_timeout has passed: the put keeps the entry it stores, also when  *)
(* it removes another one from a full cache.                               *)
C26_ReadYourWrites ==
    call.op = "put" =>
        /\ call.hash \in Hashes(query_cache)
        /\ EntryOf(query_cache, call.hash).timestamp = call.at
        /\ \A t \in {call.at, now} :
              t - call.at < cache_timeout =>
                  /\ get_cached_query_result(query_cache, call.query_params, t).ret
                        = Some(call.result)
                  /\ get_cached_query_result(query_cache, call.query_params, t).query_cache
                        = query_cache

(* a new key put into a full cache whose youngest entry has the timestamp  *)
(* of the put: another entry was removed and the new one is returned       *)
C26_Witness ==
    /\ call.op = "put"
    /\ Len(call.before) = CacheLimit
    /\ call.hash \notin Hashes(call.before)
    /\ call.before[CacheLimit].timestamp = call.at
    /\ Hashes(call.before) \ Hashes(query_cache) # {}
    /\ get_cached_query_result(query_cache, call.query_params, now).ret
          = Some(call.result)

(* the timestamp an entry has once the put has stored its own *)
StoredAt(query_hash) ==
    IF query_hash = call.hash THEN call.at
    ELSE EntryOf(call.before, query_hash).timestamp

(* C4: a put after which the cache would hold more than 100 entries        *)
(* leaves exactly 100, and none of the entries it removed was stored later *)
(* than one it kept; the entries kept are as they were.                    *)
C4_EvictsOldest ==
    (/\ call.op = "put"
     /\ Cardinality(Hashes(call.before) \cup {call.hash}) > CacheLimit)
    => LET stored == Hashes(call.before) \cup {call.hash}
           kept == Hashes(query_cache)
       IN  /\ Len(query_cache) = CacheLimit
           /\ Cardinality(kept) = CacheLimit
           /\ kept \subseteq stored
           /\ \A r \in stored \ kept : \A k \in kept : StoredAt(r) <= StoredAt(k)
           /\ \A k \in kept : EntryOf(query_cache, k).timestamp = StoredAt(k)
           /\ \A k \in kept \ {call.hash} :
                  EntryOf(query_cache, k) = EntryOf(call.before, k)

(* the 101st distinct key was put into the cache of 100 and the first one, *)
(* stored before all others, is the one that went                          *)
C4_Witness ==
    /\ call.op = "put"
    /\ call.before = Filled(CacheLimit)
    /\ call.hash = _get_query_hash(NoteKeys[CacheLimit + 1])
    /\ Len(query_cache) = CacheLimit
    /\ Hashes(call.before) \ Hashes(query_cache) = {_get_query_hash(NoteKeys[1])}

(* C5: a get returns the stored response exactly when the key is present   *)
(* and less than 3600 s old; a get of an older entry returns nothing and   *)
(* removes the entry; and a key that is absent comes back by a put only.   *)
C5_HitIffFresh ==
    /\ call.op = "get" =>
        LET present == call.hash \in Hashes(call.before)
            age == call.at - EntryOf(call.before, call.hash).timestamp
        IN  /\ call.ret # None <=> (present /\ age < cache_timeout)
            /\ call.ret # None => call.ret[1] = EntryOf(call.before, call.hash).result
            /\ (present /\ age >= cache_timeout) =>
                  /\ call.ret = None
                  /\ call.hash \notin Hashes(query_cache)
    /\ call.op \in {"get", "put"} =>
        \A h \in Hashes(query_cache) \ Hashes(call.before) :
            call.op = "put" /\ h = call.hash

(* a get of an entry that was exactly 3600 s old *)
C5_Witness ==
    /\ call.op = "get"
    /\ call.hash \in Hashes(call.before)
    /\ call.at - EntryOf(call.before, call.hash).timestamp = cache_timeout
    /\ call.ret = None
    /\ call.hash \notin Hashes(query_cache)

(***************************************************************************)
(* SpecConc: the threads of the server (app.run(threaded=True)), each      *)
(* serving one request on the one DataHandler: the look-up of              *)
(* get_cached_query_result and, when it misses, the store of               *)
(* cache_query_result.  DataHandler takes no lock; a step is one access to *)
(* the dict, which the interpreter makes atomic.                           *)
(***************************************************************************)
ConcKeyIds == {1, CacheLimit + 1, CacheLimit + 2}

Thread(pc, key, items, failed) ==
    [pc |-> pc, key |-> key, items |-> items, failed |-> failed]

(* sorted(self.query_cache.items(), key=timestamp): the keys, oldest first *)
SortedItems(cache) ==
    LET n == Len(cache)
        rank == [i \in 1..n |->
                    Cardinality({j \in 1..n :
                        \/ cache[j].timestamp < cache[i].timestamp
                        \/ cache[j].timestamp = cache[i].timestamp /\ j < i})]
    IN  [k \in 1..n |-> cache[CHOOSE i \in 1..n : rank[i] = k - 1].hash]

(* list[:n] *)
Slice(list, n) ==
    IF n >= 0 THEN SubSeq(list, 1, MinOf(n, Len(list)))
    ELSE SubSeq(list, 1, Len(list) + n)

InitConc ==
    /\ query_cache = Filled(CacheLimit)
    /\ query_cache_file = Some(Filled(CacheLimit))
    /\ now \in {CacheLimit, CacheLimit + cache_timeout}
    /\ ticks = 0
    /\ year = 2025
    /\ data_cache = <<>>
    /\ call = Idle
    /\ served = <<>>
    /\ threads = [t \in 1..MaxThreads |-> Thread("idle", 0, <<>>, None)]
    /\ nlp = <<>>
    /\ dedup = <<>>
    /\ exec = <<>>
    /\ hashed = <<>>

HashOf(t) == _get_query_hash(NoteKeys[threads[t].key])

Goto(t, pc) == threads' = [threads EXCEPT ![t].pc = pc]

Fail(t, error) == threads' = [threads EXCEPT ![t].pc = "raised", ![t].failed = Some(error)]

ConcUnchanged == UNCHANGED <<now, ticks, year, data_cache, call, served, nlp, dedup, exec, hashed>>

(* a request arrives *)
Start(t) ==
    /\ threads[t].pc = "idle"
    /\ \E i \in ConcKeyIds : threads' = [threads EXCEPT ![t].pc = "contains", ![t].key = i]
    /\ UNCHANGED <<query_cache, query_cache_file>>
    /\ ConcUnchanged

(* if query_hash in self.query_cache *)
Contains(t) ==
    /\ threads[t].pc = "contains"
    /\ Goto(t, IF KeyIndex(query_cache, HashOf(t)) # {} THEN "read" ELSE "insert")
    /\ UNCHANGED <<query_cache, query_cache_file>>
    /\ ConcUnchanged

(* cache_entry = self.query_cache[query_hash] and the test of its age *)
ReadEntry(t) ==
    /\ threads[t].pc = "read"
    /\ IF KeyIndex(query_cache, HashOf(t)) = {} THEN Fail(t, "KeyError")
       ELSE IF StillValid(EntryOf(query_cache, HashOf(t)).timestamp, now)
       THEN Goto(t, "returned")
       ELSE Goto(t, "delete")
    /\ UNCHANGED <<query_cache, query_cache_file>>
    /\ ConcUnchanged

(* del self.query_cache[query_hash] *)
DeleteExpired(t) ==
    /\ threads[t].pc = "delete"
    /\ IF KeyIndex(query_cache, HashOf(t)) = {}
       THEN Fail(t, "KeyError") /\ UNCHANGED query_cache
       ELSE /\ query_cache' = RemoveAt(query_cache, KeyIndex(query_cache, HashOf(t)))
            /\ Goto(t, "insert")
    /\ UNCHANGED query_cache_file
    /\ ConcUnchanged

(* self.query_cache[query_hash] = {...} *)
Insert(t) ==
    /\ threads[t].pc = "insert"
    /\ query_cache' = StoreEntry(query_cache, NoteKeys[threads[t].key],
                                 NoteResults[threads[t].key], now)
    /\ Goto(t, "check")
    /\ UNCHANGED query_cache_file
    /\ ConcUnchanged

(* if len(self.query_cache) > 100 *)
CheckSize(t) ==
    /\ threads[t].pc = "check"
    /\ Goto(t, IF Len(query_cache) > CacheLimit THEN "sort" ELSE "save")
    /\ UNCHANGED <<query_cache, query_cache_file>>
    /\ ConcUnchanged

(* sorted(self.query_cache.items(), key=...) *)
SortItems(t) ==
    /\ threads[t].pc = "sort"
    /\ threads' = [threads EXCEPT ![t].pc = "slice", ![t].items = SortedItems(query_cache)]
    /\ UNCHANGED <<query_cache, query_cache_file>>
    /\ ConcUnchanged

(* [:len(self.query_cache) - 100] *)
SliceOldest(t) ==
    /\ threads[t].pc = "slice"
    /\ threads' = [threads EXCEPT ![t].pc = "evict",
                                  ![t].items = Slice(@, Len(query_cache) - CacheLimit)]
    /\ UNCHANGED <<query_cache, query_cache_file>>
    /\ ConcUnchanged

(* for entry_hash, _ in oldest_entries: del self.query_cache[entry_hash] *)
DeleteOldest(t) ==
    /\ threads[t].pc = "evict"
    /\ IF threads[t].items = <<>>
       THEN Goto(t, "save") /\ UNCHANGED query_cache
       ELSE IF KeyIndex(query_cache, Head(threads[t].items)) = {}
       THEN Fail(t, "KeyError") /\ UNCHANGED query_cache
       ELSE /\ query_cache' = RemoveAt(query_cache, KeyIndex(query_cache, Head(threads[t].items)))
            /\ threads' = [threads EXCEPT ![t].items = Tail(@)]
    /\ UNCHANGED query_cache_file
    /\ ConcUnchanged

(* self._save_query_cache() *)
Save(t) ==
    /\ threads[t].pc = "save"
    /\ \E outcome \in SaveOutcomes :
          query_cache_file' = _save_query_cache(query_cache_file, query_cache, outcome)
    /\ Goto(t, "returned")
    /\ UNCHANGED query_cache
    /\ ConcUnchanged

NextConc ==
    \E t \in 1..MaxThreads :
        \/ Start(t)
        \/ Contains(t)
        \/ ReadEntry(t)
        \/ DeleteExpired(t)
        \/ Insert(t)
        \/ CheckSize(t)
        \/ SortItems(t)
        \/ SliceOldest(t)
        \/ DeleteOldest(t)
        \/ Save(t)

SpecConc == InitConc /\ [][NextConc]_vars

(***************************************************************************)
(* Properties of SpecConc                                                  *)
(***************************************************************************)
Finished(t) == threads[t].pc \in {"returned", "raised"}

(* C6: whatever the interleaving of the threads, no cache operation fails  *)
(* and, once every operation has finished, the cache holds at most 100     *)
(* entries.                                                                *)
C6_AtomicCacheOperations ==
    /\ \A t \in 1..Len(threads) : threads[t].failed = None
    /\ (\A t \in 1..Len(threads) : Finished(t)) => Len(query_cache) <= CacheLimit

(***************************************************************************)
(* SpecDedup: _remove_duplicate_entities on the lists of up to             *)
(* MaxCandidates candidates with spans inside 0..MaxPos that                *)
(* _extract_entities can collect.                                          *)
(***************************************************************************)
(* the kinds of entity _extract_entities appends, with their confidences: *)
(* doc.ents of spaCy as location or date, the matches of the state names,  *)
(* of the crop names and of the year pattern                               *)
Kinds ==
    { [entity_type |-> "location", value |-> "Punjab", confidence |-> 80],
      [entity_type |-> "date", value |-> "2020", confidence |-> 70],
      [entity_type |-> "state", value |-> "Punjab", confidence |-> 90],
      [entity_type |-> "crop", value |-> "Rice", confidence |-> 90],
      [entity_type |-> "year", value |-> "2020", confidence |-> 95] }

Candidates ==
    {Entity(k.entity_type, k.value, k.confidence, start, end) :
        k \in Kinds, start \in 0..(MaxPos - 1), end \in 1..MaxPos}

FromSpacy(e) == e.entity_type \in {"location", "date"}

(* two candidates of one query: the spans of doc.ents do not overlap each  *)
(* other, and a match of the year pattern, four digits between word        *)
(* boundaries, overlaps no other match of it and no match of a state or    *)
(* crop name, which have no digit                                          *)
Compatible(e, f) ==
    Overlaps(e, f) =>
        /\ ~(FromSpacy(e) /\ FromSpacy(f))
        /\ ~(e.entity_type = "year" /\ ~FromSpacy(f))
        /\ ~(f.entity_type = "year" /\ ~FromSpacy(e))

InitDedup ==
    /\ query_cache = <<>>
    /\ query_cache_file = None
    /\ now = CacheLimit
    /\ ticks = 0
    /\ year = 2025
    /\ data_cache = <<>>
    /\ call = Idle
    /\ served = <<>>
    /\ threads = <<>>
    /\ nlp = <<>>
    /\ dedup = [entities |-> <<>>, filtered_entities |-> None]
    /\ exec = <<>>
    /\ hashed = <<>>

(* one more candidate is found *)
FindCandidate ==
    /\ dedup.filtered_entities = None
    /\ Len(dedup.entities) < MaxCandidates
    /\ \E e \in Candidates :
          /\ e.start_pos < e.end_pos
          /\ \A k \in 1..Len(dedup.entities) : Compatible(e, dedup.entities[k])
          /\ dedup' = [dedup EXCEPT !.entities = Append(@, e)]
    /\ UNCHANGED <<query_cache, query_cache_file, now, ticks, year, data_cache, call,
                   served, threads, nlp, exec, hashed>>

RemoveDuplicates ==
    /\ dedup.filtered_entities = None
    /\ dedup' = [dedup EXCEPT !.filtered_entities = Some(_remove_duplicate_entities(dedup.entities))]
    /\ UNCHANGED <<query_cache, query_cache_file, now, ticks, year, data_cache, call,
                   served, threads, nlp, exec, hashed>>

NextDedup == FindCandidate \/ RemoveDuplicates

SpecDedup == InitDedup /\ [][NextDedup]_vars

(* C8: no two entities of the list _remove_duplicate_entities returns have *)
(* spans [start_pos, end_pos) that overlap.                                *)
C8_NoOverlap ==
    dedup.filtered_entities # None =>
        LET out == dedup.filtered_entities[1]
        IN  \A i, j \in 1..Len(out) :
                i < j => ~(out[i].start_pos < out[j].end_pos /\ out[j].start_pos < out[i].end_pos)

(* three candidates, each overlapping the next, of which the one in the    *)
(* middle has the higher confidence: two of them are dropped               *)
C8_Witness ==
    /\ dedup.filtered_entities # None
    /\ Len(dedup.entities) = 3
    /\ dedup.entities[1].start_pos < dedup.entities[2].start_pos
    /\ dedup.entities[2].start_pos < dedup.entities[3].start_pos
    /\ dedup.entities[2].start_pos < dedup.entities[1].end_pos
    /\ dedup.entities[3].start_pos < dedup.entities[2].end_pos
    /\ dedup.entities[2].confidence > dedup.entities[1].confidence
    /\ dedup.filtered_entities[1] = <<dedup.entities[2]>>

(* C30: every candidate that is not in the list                            *)
(* _remove_duplicate_entities returns overlaps an entity of that list      *)
(* whose confidence is not below its own.                                  *)
C30_DroppedForKept ==
    dedup.filtered_entities # None =>
        LET out == Range(dedup.filtered_entities[1])
        IN  \A e \in Range(dedup.entities) \ out :
                \E kept \in out : Overlaps(e, kept) /\ kept.confidence >= e.confidence

(* an entity of spaCy replaced by a name that overlaps it, and a second    *)
(* name of the same confidence dropped because it overlaps the first       *)
C30_Witness ==
    /\ dedup.filtered_entities # None
    /\ Len(dedup.entities) = 3
    /\ FromSpacy(dedup.entities[1])
    /\ dedup.entities[2].entity_type = "state"
    /\ dedup.entities[3].entity_type = "crop"
    /\ dedup.entities[1].start_pos < dedup.entities[2].start_pos
    /\ dedup.entities[2].start_pos < dedup.entities[3].start_pos
    /\ Overlaps(dedup.entities[2], dedup.entities[1])
    /\ Overlaps(dedup.entities[3], dedup.entities[2])
    /\ ~Overlaps(dedup.entities[3], dedup.entities[1])
    /\ dedup.filtered_entities[1] = <<dedup.entities[2]>>

(***************************************************************************)
(* SpecNLP: the analysis and the mapping of the queries made of up to      *)
(* MaxPhrases of the phrases.  The spaCy model, when it is loaded, may     *)
(* take the first word for a place.                                        *)
(***************************************************************************)
InitNLP ==
    /\ query_cache = <<>>
    /\ query_cache_file = None
    /\ now = CacheLimit
    /\ ticks = 0
    /\ year = 2025
    /\ data_cache = <<>>
    /\ call = Idle
    /\ served = <<>>
    /\ threads = <<>>
    /\ nlp = [query |-> <<>>, phrases |-> 0, analysis |-> None, operations |-> None]
    /\ dedup = <<>>
    /\ exec = <<>>
    /\ hashed = <<>>

TypePhrase ==
    /\ nlp.analysis = None
    /\ nlp.phrases < MaxPhrases
    /\ \E phrase \in Phrases :
          nlp' = [nlp EXCEPT !.query = @ \o phrase, !.phrases = @ + 1]
    /\ UNCHANGED <<query_cache, query_cache_file, now, ticks, year, data_cache, call,
                   served, threads, dedup, exec, hashed>>

DocEnts(query) ==
    {<<>>} \cup (IF query = <<>> THEN {}
                 ELSE {<<[label_ |-> "GPE", text |-> query[1], start_char |-> 0, end_char |-> 1]>>})

Analyze ==
    /\ nlp.analysis = None
    /\ \E ents \in DocEnts(nlp.query) :
        \E analysis \in {analyze_query(nlp.query, ents)} :
          nlp' = [nlp EXCEPT !.analysis = Some(analysis),
                             !.operations = Some(map_query_to_operations(analysis, year))]
    /\ UNCHANGED <<query_cache, query_cache_file, now, ticks, year, data_cache, call,
                   served, threads, dedup, exec, hashed>>

NextNLP == TypePhrase \/ Analyze

SpecNLP == InitNLP /\ [][NextNLP]_vars

(* C17: the query type is the first of comparison, ranking,               *)
(* trend_analysis, correlation that has a pattern found in the query, and  *)
(* general_info when none has.                                             *)
CategoryOrder == <<"comparison", "ranking", "trend_analysis", "correlation">>

MatchesCategory(query, query_type) ==
    \E k \in 1..Len(query_patterns) :
        /\ query_patterns[k].query_type = query_type
        /\ \E alt \in query_patterns[k].patterns : re_search(query, alt)

C17_FirstCategoryWins ==
    nlp.analysis # None =>
        /\ \A k \in 1..Len(CategoryOrder) :
              (/\ MatchesCategory(nlp.query, CategoryOrder[k])
               /\ \A j \in 1..(k - 1) : ~MatchesCategory(nlp.query, CategoryOrder[j])) =>
                  nlp.analysis[1].query_type = CategoryOrder[k]
        /\ (\A k \in 1..Len(CategoryOrder) : ~MatchesCategory(nlp.query, CategoryOrder[k])) =>
              nlp.analysis[1].query_type = "general_info"

(* a query with patterns of ranking and of correlation, ranking first in   *)
(* the order though last in the text                                       *)
C17_Witness ==
    /\ nlp.analysis # None
    /\ nlp.query = <<"affect", "highest">>
    /\ MatchesCategory(nlp.query, "ranking")
    /\ MatchesCategory(nlp.query, "correlation")
    /\ ~MatchesCategory(nlp.query, "comparison")
    /\ nlp.analysis[1].query_type = "ranking"

(* C24: the year_range of the operation spec is (current year - N,         *)
(* current year) for a time_period that is the integer N, the pair itself  *)
(* for a time_period that is a pair, and missing without time_period; the  *)
(* values the mapper passes to int() are digits.                           *)
C24_YearRangeFromTimePeriod ==
    nlp.analysis # None =>
        LET time_period == nlp.analysis[1].parameters.time_period
            year_range == nlp.operations[1].filters.year_range
            entities == nlp.analysis[1].entities
        IN  /\ time_period = None => year_range = None
            /\ (time_period # None /\ Len(time_period[1]) = 1) =>
                   year_range = Some(<<year - time_period[1][1], year>>)
            /\ (time_period # None /\ Len(time_period[1]) = 2) =>
                   year_range = Some(time_period[1])
            /\ \A k \in 1..Len(entities) :
                   entities[k].entity_type = "year" => IsDigits(entities[k].value)

(* "last 5 years" asked in 2025 *)
C24_Witness ==
    /\ nlp.analysis # None
    /\ nlp.query = <<"rice", "production", "last", "5", "years">>
    /\ nlp.analysis[1].parameters.time_period = Some(<<5>>)
    /\ nlp.operations[1].filters.year_range = Some(<<2020, 2025>>)

(* C25: time_period is the value of the first of the patterns, in the      *)
(* order last N years, past N years, YYYY-YYYY, from YYYY to YYYY, between *)
(* YYYY and YYYY, in YYYY, decade, last decade, that is found in the       *)
(* query, and is missing when none is found.                               *)
TimeOrder ==
    << <<"last", "#N", "year">>, <<"past", "#N", "year">>, <<"#Y", "-", "#Y">>,
       <<"from", "#Y", "to", "#Y">>, <<"between", "#Y", "and", "#Y">>, <<"in", "#Y">>,
       <<"decade">>, <<"last", "decade">> >>

ValueOf(query, template) ==
    LET groups == TimeMatch(query, template)[1]
        numbers == [k \in 1..Cardinality(DOMAIN groups) |->
                      groups[CHOOSE h \in DOMAIN groups :
                                Cardinality({g \in DOMAIN groups : g <= h}) = k]]
    IN  IF numbers = <<>> THEN <<10>> ELSE numbers

C25_FirstTimePatternWins ==
    nlp.analysis # None =>
        LET time_period == nlp.analysis[1].parameters.time_period
        IN  /\ \A k \in 1..Len(TimeOrder) :
                  (/\ TimeMatch(nlp.query, TimeOrder[k]) # None
                   /\ \A j \in 1..(k - 1) : TimeMatch(nlp.query, TimeOrder[j]) = None) =>
                      time_period = Some(ValueOf(nlp.query, TimeOrder[k]))
            /\ (\A k \in 1..Len(TimeOrder) : TimeMatch(nlp.query, TimeOrder[k]) = None) =>
                  time_period = None

(* "in 2020" comes first in the text, "last 5 years" first in the order *)
C25_Witness ==
    /\ nlp.analysis # None
    /\ nlp.query = <<"in", "2020", "last", "5", "years">>
    /\ TimeMatch(nlp.query, TimeOrder[1]) # None
    /\ TimeMatch(nlp.query, TimeOrder[6]) # None
    /\ nlp.analysis[1].parameters.time_period = Some(<<5>>)

(* C9: the year_range of an operation spec, when there is one, is a pair   *)
(* (start, end) with start <= end.                                         *)
C9_YearRangeOrdered ==
    nlp.operations # None =>
        LET year_range == nlp.operations[1].filters.year_range
        IN  year_range # None =>
                /\ Len(year_range[1]) = 2
                /\ year_range[1][1] <= year_range[1][2]

(* C10: the confidence (in hundredths) is 50, plus 10 for each entity up   *)
(* to 30, plus 5 for each parameter up to 15, plus 10 when the query type  *)
(* is not general_info, and at most 100; so it lies in 50..100, and in     *)
(* 50..60 when there is no entity and no parameter.                        *)
C10_ConfidenceFormula ==
    nlp.analysis # None =>
        LET a == nlp.analysis[1]
            n_entities == Len(a.entities)
            n_parameters == Cardinality({k \in DOMAIN a.parameters : a.parameters[k] # None})
            sum == 50 + (IF 10 * n_entities < 30 THEN 10 * n_entities ELSE 30)
                      + (IF 5 * n_parameters < 15 THEN 5 * n_parameters ELSE 15)
                      + (IF a.query_type # "general_info" THEN 10 ELSE 0)
        IN  /\ a.confidence = (IF sum < 100 THEN sum ELSE 100)
            /\ a.confidence >= 50
            /\ a.confidence <= 100
            /\ (n_entities = 0 /\ n_parameters = 0) => a.confidence <= 60

(* three entities, three parameters and a specific query type: the sum is  *)
(* 105 and the confidence 100                                              *)
C10_Witness ==
    /\ nlp.analysis # None
    /\ Len(nlp.analysis[1].entities) >= 3
    /\ \A k \in DOMAIN nlp.analysis[1].parameters : nlp.analysis[1].parameters[k] # None
    /\ nlp.analysis[1].query_type # "general_info"
    /\ nlp.analysis[1].confidence = 100

(***************************************************************************)
(* SpecExec: the steps of the execution engine applied to tables.  The     *)
(* tables are the ones the cleaning can leave: names in title case, years  *)
(* present in the tables of agriculture, and a yield that may be missing,  *)
(* which no step of the cleaning removes.                                  *)
(***************************************************************************)
RowsOver(columns, states, years, values) ==
    {[c \in Range(columns) |->
        CASE c = "state" -> s
          [] c = "crop" -> "Rice"
          [] c = "year" -> y
          [] OTHER -> v] : s \in states, y \in years, v \in values}

TablesOver(columns, rows) ==
    {DataFrame(columns, r) : r \in UNION {[1..n -> rows] : n \in 0..MaxRows}}

FilterTables ==
    TablesOver(<<"state", "year", "yield">>,
               RowsOver(<<"state", "year", "yield">>, {"Kerala", "Punjab"},
                        {NaN, Some(2019), Some(2020), Some(2021), Some(2022)},
                        {Some(Num(1))}))
    \cup TablesOver(<<"state", "yield">>,
                    RowsOver(<<"state", "yield">>, {"Kerala", "Punjab"}, {NaN},
                             {Some(Num(1)), Some(Num(2))}))

FilterSpecs ==
    {[state |-> s, crop |-> None, year |-> y, year_range |-> r] :
        s \in {None, Some(<<"Punjab">>)},
        y \in {None, Some(<<2020>>)},
        r \in {None, Some(<<2020, 2021>>), Some(<<2021, 2021>>), Some(<<2021, 2020>>)}}

AggLayouts ==
    {<<"state", "year", "yield">>, <<"year", "yield">>, <<"state", "yield">>,
     <<"state", "year">>}

AggTables ==
    UNION {TablesOver(columns,
                      RowsOver(columns, {"Kerala", "Punjab"}, {Some(2020), Some(2021)},
                               {NaN, Some(Num(0)), Some(Num(2))})) : columns \in AggLayouts}

QueryTypes == {"comparison", "ranking", "trend_analysis", "correlation", "general_info"}

(* the aggregation specs of the mapper, and specs without group_by, which  *)
(* only a direct caller can give                                           *)
AggSpecs(query_type) ==
    {[column |-> "yield", function |-> f, group_by |-> g] :
        f \in Functions,
        g \in {IF query_type = "trend_analysis" THEN <<"state", "year">> ELSE <<"state">>,
               <<>>}}
    \cup {[column |-> "yield", function |-> "total", group_by |-> <<>>]}

InitExec ==
    /\ query_cache = <<>>
    /\ query_cache_file = None
    /\ now = CacheLimit
    /\ ticks = 0
    /\ year = 2025
    /\ data_cache = <<>>
    /\ call = Idle
    /\ served = <<>>
    /\ threads = <<>>
    /\ nlp = <<>>
    /\ dedup = <<>>
    /\ exec = Idle
    /\ hashed = <<>>

ExecUnchanged ==
    UNCHANGED <<query_cache, query_cache_file, now, ticks, year, data_cache, call, served,
                threads, nlp, dedup, hashed>>

ApplyFilters ==
    /\ exec = Idle
    /\ \E df \in FilterTables, filters \in FilterSpecs :
          exec' = [op |-> "_apply_filters", df |-> df, filters |-> filters,
                   out |-> _apply_filters(df, filters)]
    /\ ExecUnchanged

PerformAggregation ==
    /\ exec = Idle
    /\ \E df \in AggTables, query_type \in QueryTypes :
        \E agg_spec \in AggSpecs(query_type) :
          exec' = [op |-> "_perform_aggregation", df |-> df, agg_spec |-> agg_spec,
                   query_type |-> query_type,
                   out |-> _perform_aggregation(
                               <<Dataset("agriculture.crop_production", df)>>,
                               agg_spec, query_type)]
    /\ ExecUnchanged

(* _generate_trend_answer on what the aggregation of a trend query makes  *)
(* of a table                                                              *)
TrendEntities == {<<>>, <<Entity("state", "Punjab", 90, 0, 1)>>}

TrendAnswer ==
    /\ exec = Idle
    /\ \E df \in TablesOver(<<"state", "year", "yield">>,
                            RowsOver(<<"state", "year", "yield">>, {"Kerala", "Punjab"},
                                     {Some(2020), Some(2021)},
                                     {NaN, Some(Num(-2)), Some(Num(0)), Some(Num(2)),
                                      Some(Num(3))})),
          function \in {"sum", "mean"}, entities \in TrendEntities :
        \E data \in {_perform_aggregation(
                        <<Dataset("agriculture.crop_production", df)>>,
                        [column |-> "yield", function |-> function,
                         group_by |-> <<"state", "year">>], "trend_analysis")} :
          exec' = [op |-> "_generate_trend_answer", entities |-> entities, data |-> data,
                   out |-> _generate_trend_answer(entities, [data |-> data])]
    /\ ExecUnchanged

(* _generate_comparison_answer on what the aggregation of a comparison     *)
(* query makes of a table, the query naming a state or none                *)
ComparisonAnswer ==
    /\ exec = Idle
    /\ \E df \in TablesOver(<<"state", "year", "yield">>,
                            RowsOver(<<"state", "year", "yield">>, {"Kerala", "Punjab"},
                                     {Some(2020), Some(2021)},
                                     {NaN, Some(Num(2)), Some(Num(1234567)),
                                      Some(Frac(2469, 2))})),
          function \in {"sum", "mean", "max"}, entities \in TrendEntities :
        \E data \in {_perform_aggregation(
                        <<Dataset("agriculture.crop_production", df)>>,
                        [column |-> "yield", function |-> function,
                         group_by |-> <<"state">>], "comparison")} :
          exec' = [op |-> "_generate_comparison_answer", entities |-> entities,
                   data |-> data,
                   out |-> _generate_comparison_answer(entities, [data |-> data])]
    /\ ExecUnchanged

(* _calculate_data_freshness at noon of 2025-03-01 on the dates of four    *)
(* years, days and months that no calendar has among them, with and        *)
(* without a time of day, and on values that are no date                   *)
Today == [year |-> 2025, month |-> 3, day |-> 1, hour |-> 12]

UpdateTexts ==
    {[form |-> "date", year |-> y, month |-> m, day |-> d, hour |-> 0] :
        y \in 2022..2025, m \in 1..13, d \in 1..32}
    \cup {[form |-> "datetime", year |-> y, month |-> m, day |-> d, hour |-> 18] :
            y \in 2024..2025, m \in 2..3, d \in 1..32}
    \cup {[form |-> "other", year |-> 0, month |-> 0, day |-> 0, hour |-> 0]}

DataFreshness ==
    /\ exec = Idle
    /\ \E last_updated \in {None} \cup {Some(text) : text \in UpdateTexts} :
          exec' = [op |-> "_calculate_data_freshness", last_updated |-> last_updated,
                   today |-> Today,
                   out |-> _calculate_data_freshness(last_updated, Today)]
    /\ ExecUnchanged

(* _execute_operations on the operation specs of some queries, nothing     *)
(* being memoized, and the files holding these tables or none              *)
ExecQueries == {<<"highest", "yield">>, <<"production">>, <<"rainfall", "trend">>}

Row5(state, year_, production, yield) ==
    [state |-> state, crop |-> "Rice", year |-> Some(year_),
     production |-> Some(Num(production)), yield |-> yield]

CropFiles ==
    {None,
     Some(DataFrame(<<"state", "crop", "year", "production", "yield">>, <<>>)),
     Some(DataFrame(<<"state", "crop", "year", "production", "yield">>,
                    <<Row5("punjab", 2024, 3, Some(Num(2))),
                      Row5("Kerala", 2024, 1, NaN),
                      Row5("Kerala", 2025, 0, Some(Num(5)))>>))}

StateWiseFiles ==
    {None,
     Some(DataFrame(<<"state", "crop", "year", "production">>,
                    <<SampleRow("Punjab", "Rice", 2023, "production", 2)>>))}

RainFiles ==
    {None,
     Some(DataFrame(<<"state", "crop", "year", "rainfall">>,
                    <<SampleRow("Kerala", "Rice", 2023, "rainfall", 0),
                      SampleRow("Kerala", "Rice", 2024, "rainfall", 4),
                      SampleRow("Kerala", "Rice", 2025, "rainfall", -1)>>))}

Fetches ==
    {[d \in DOMAIN NoFetch |->
        CASE d = "agriculture.crop_production" -> c
          [] d = "agriculture.state_wise_production" -> w
          [] d = "meteorology.rainfall_data" -> r
          [] OTHER -> None] : c \in CropFiles, w \in StateWiseFiles, r \in RainFiles}

ExecuteOperations ==
    /\ exec = Idle
    /\ \E query \in ExecQueries, fetch \in Fetches :
        \E operations \in {map_query_to_operations(analyze_query(query, <<>>), year)} :
          exec' = [op |-> "_execute_operations", operations |-> operations, fetch |-> fetch,
                   out |-> _execute_operations(operations, <<>>, fetch)]
    /\ ExecUnchanged

(* _perform_joins on two filtered tables *)
JoinTables ==
    TablesOver(<<"state", "year", "yield">>,
               RowsOver(<<"state", "year", "yield">>, {"Kerala", "Punjab"},
                        {Some(2020), Some(2021)}, {Some(Num(1))}))
    \cup TablesOver(<<"year", "rainfall">>,
                    RowsOver(<<"year", "rainfall">>, {"Kerala"}, {Some(2020), Some(2021)},
                             {Some(Num(0))}))
    \cup TablesOver(<<"crop", "rainfall">>,
                    RowsOver(<<"crop", "rainfall">>, {"Kerala"}, {NaN}, {Some(Num(0))}))

PerformJoins ==
    /\ exec = Idle
    /\ \E left \in JoinTables, right \in JoinTables :
        \E datasets \in {<<Dataset("agriculture.crop_production", left),
                           Dataset("meteorology.rainfall_data", right)>>} :
          exec' = [op |-> "_perform_joins", datasets |-> datasets,
                   out |-> _perform_joins(datasets, <<"state", "year">>)]
    /\ ExecUnchanged

NextExec ==
    \/ ApplyFilters
    \/ PerformAggregation
    \/ TrendAnswer
    \/ ComparisonAnswer
    \/ DataFreshness
    \/ ExecuteOperations
    \/ PerformJoins

SpecExec == InitExec /\ [][NextExec]_vars

(* x >= y of two cells *)
CellAtLeast(x, y) == x # NaN /\ y # NaN /\ ~Less(x[1], y[1])

(* C11: in every table the aggregation of a ranking query tags "ranked",   *)
(* the aggregated value of a row is at least the value of the row after    *)
(* it.                                                                     *)
C11_RankedNonIncreasing ==
    (exec.op = "_perform_aggregation" /\ exec.query_type = "ranking") =>
        \A e \in 1..Len(exec.out) :
            exec.out[e].tag = "ranked" =>
                LET rows == exec.out[e].value.rows
                IN  \A i \in 1..(Len(rows) - 1) :
                        CellAtLeast(rows[i][exec.agg_spec.column],
                                    rows[i + 1][exec.agg_spec.column])

(* C12: the year_range filter (start, end), no other filter being given,   *)
(* keeps exactly the rows with start <= year <= end, in their order, the   *)
(* rows of the years start and end among them, and leaves a table without  *)
(* a year column as it is.                                                 *)
InYearRange(row, year_range) ==
    /\ row.year # NaN
    /\ year_range[1] <= row.year[1]
    /\ row.year[1] <= year_range[2]

C12_YearRangeInclusive ==
    (/\ exec.op = "_apply_filters"
     /\ exec.filters.year_range # None
     /\ exec.filters.state = None
     /\ exec.filters.crop = None
     /\ exec.filters.year = None) =>
        IF HasColumn(exec.df, "year")
        THEN /\ exec.out.columns = exec.df.columns
             /\ exec.out.rows =
                    SelectSeq(exec.df.rows,
                              LAMBDA row : InYearRange(row, exec.filters.year_range[1]))
        ELSE exec.out = exec.df

(* rows of the first and of the last year of the range, both kept, and a   *)
(* row outside that is dropped                                             *)
C12_Witness ==
    /\ exec.op = "_apply_filters"
    /\ exec.filters.year_range = Some(<<2020, 2021>>)
    /\ exec.filters.state = None
    /\ exec.filters.year = None
    /\ HasColumn(exec.df, "year")
    /\ Len(exec.df.rows) = 2
    /\ exec.df.rows[1].year = Some(2021)
    /\ exec.df.rows[2].year = Some(2022)
    /\ Len(exec.out.rows) = Len(exec.df.rows) - 1
    /\ exec.out.rows[1].year = Some(2021)

(* C19: for a table that has rows and the metric column, the result is    *)
(* the per-group aggregate when all group_by columns are in the table, and *)
(* one scalar, the requested function (or sum, when it is none of the      *)
(* five) over the whole column, when none of them is.                      *)
GroupCells(df, by, column, group_key) ==
    Column(Where(df, LAMBDA row : KeyOf(row, by) = group_key), column)

IsPerGroupAggregate(out, df, spec) ==
    /\ out.columns = spec.group_by \o <<spec.column>>
    /\ \A group_key \in GroupKeys(df, spec.group_by) :
          Cardinality({k \in 1..Len(out.rows) :
                          KeyOf(out.rows[k], spec.group_by) = group_key}) = 1
    /\ \A k \in 1..Len(out.rows) :
          /\ KeyOf(out.rows[k], spec.group_by) \in GroupKeys(df, spec.group_by)
          /\ out.rows[k][spec.column] =
                 Agg(spec.function,
                     GroupCells(df, spec.group_by, spec.column,
                                KeyOf(out.rows[k], spec.group_by)))

Aggregable ==
    /\ exec.op = "_perform_aggregation"
    /\ ~IsEmpty(exec.df)
    /\ HasColumn(exec.df, exec.agg_spec.column)

C19_GroupedOrScalar ==
    Aggregable =>
        /\ (/\ exec.agg_spec.group_by # <<>>
            /\ \A c \in Range(exec.agg_spec.group_by) : HasColumn(exec.df, c)) =>
               /\ Len(exec.out) = 1
               /\ IsDataFrame(exec.out[1])
               /\ IsPerGroupAggregate(exec.out[1].value, exec.df, exec.agg_spec)
        /\ (\A c \in Range(exec.agg_spec.group_by) : ~HasColumn(exec.df, c)) =>
               /\ Len(exec.out) = 1
               /\ ~IsDataFrame(exec.out[1])
               /\ exec.out[1].value =
                      Agg(IF exec.agg_spec.function \in Functions
                          THEN exec.agg_spec.function ELSE "sum",
                          Column(exec.df, exec.agg_spec.column))

(* the two halves of C19 apart: the grouped one, which holds *)
C19_Grouped ==
    (/\ Aggregable
     /\ exec.agg_spec.group_by # <<>>
     /\ \A c \in Range(exec.agg_spec.group_by) : HasColumn(exec.df, c)) =>
        /\ Len(exec.out) = 1
        /\ IsDataFrame(exec.out[1])
        /\ IsPerGroupAggregate(exec.out[1].value, exec.df, exec.agg_spec)

(* C18: when the execution has more than one filtered table, the result   *)
(* holds a joined table, which is what _perform_joins makes of the         *)
(* filtered tables.                                                        *)
FilteredOf(operations, fetch) ==
    Filtered(LoadDatasets(operations.datasets_needed,
                          [datasets |-> <<>>, data_cache |-> <<>>, fetched |-> <<>>],
                          fetch).datasets,
             operations.filters)

C18_JoinedWhenSeveral ==
    (/\ exec.op = "_execute_operations"
     /\ Len(FilteredOf(exec.operations, exec.fetch)) > 1) =>
        \E k \in 1..Len(exec.out.data) :
            /\ exec.out.data[k].tag = "joined"
            /\ exec.out.data[k].value =
                   _perform_joins(FilteredOf(exec.operations, exec.fetch), <<>>)

(* C20: the trend answer names the direction increasing, decreasing or     *)
(* stable as the last value is above, below or equal to the first, and has *)
(* the percent clause only when the first value is not 0.                  *)
TrendFirst == exec.data[1].value.rows[1].yield

TrendLast == exec.data[1].value.rows[Len(exec.data[1].value.rows)].yield

Answered ==
    /\ exec.op = "_generate_trend_answer"
    /\ exec.data # <<>>
    /\ ~IsEmpty(exec.data[1].value)
    /\ TrendFirst # NaN
    /\ TrendLast # NaN

C20_TrendDirectionAndPercent ==
    Answered =>
        /\ Less(TrendFirst[1], TrendLast[1]) => exec.out.args[4] = "increasing"
        /\ Less(TrendLast[1], TrendFirst[1]) => exec.out.args[4] = "decreasing"
        /\ TrendFirst = TrendLast => exec.out.args[4] = "stable"
        /\ exec.out.args[5] # None => TrendFirst[1] # Num(0)
        /\ TrendFirst[1] = Num(0) => exec.out.args[5] = None

(* the direction alone *)
C20_Direction ==
    Answered =>
        /\ Less(TrendFirst[1], TrendLast[1]) => exec.out.args[4] = "increasing"
        /\ Less(TrendLast[1], TrendFirst[1]) => exec.out.args[4] = "decreasing"
        /\ TrendFirst = TrendLast => exec.out.args[4] = "stable"

(***************************************************************************)
(* SpecKey: the key of the query cache.  The parameters of a query are     *)
(* held by two dicts equal in Python, their keys inserted in two orders;   *)
(* the first is stored, the second looked up at the same time.             *)
(***************************************************************************)
KeyQueries ==
    {p \o q : p \in Phrases, q \in {<<"punjab">>, <<"rice", "production">>, <<"in", "2020">>}}

(* the orders of insertion: the str order, its reverse, and others *)
Orders ==
    {[k \in 1..Len(Keys) |-> (k * m + a) % Len(Keys)] : m \in {1, 7, 18}, a \in {0, 5}}

RECURSIVE Reinserted(_, _)
Reinserted(obj, order) ==
    CASE obj.t = "list" ->
            JList([k \in 1..Len(obj.v) |-> Reinserted(obj.v[k], order)])
      [] obj.t = "dict" ->
            LET at(i) == Cardinality({j \in 1..Len(obj.v) :
                            order[KeyRank(obj.v[j][1])] < order[KeyRank(obj.v[i][1])]}) + 1
            IN  JDict([p \in 1..Len(obj.v) |->
                         LET i == CHOOSE i \in 1..Len(obj.v) : at(i) = p
                         IN  <<obj.v[i][1], Reinserted(obj.v[i][2], order)>>])
      [] OTHER -> obj

InitKey ==
    /\ query_cache = <<>>
    /\ query_cache_file = None
    /\ now = CacheLimit
    /\ ticks = 0
    /\ year = 2025
    /\ data_cache = <<>>
    /\ call = Idle
    /\ served = <<>>
    /\ threads = <<>>
    /\ nlp = <<>>
    /\ dedup = <<>>
    /\ exec = <<>>
    /\ hashed = Idle

HashTwice ==
    /\ hashed = Idle
    /\ \E query \in KeyQueries, first \in Orders, second \in Orders :
        \E analysis \in {analyze_query(query, <<>>)} :
        \E result \in {_generate_response(query, analysis,
                            map_query_to_operations(analysis, year),
                            _execute_operations(map_query_to_operations(analysis, year),
                                                <<>>, NoFetch))} :
           LET query_params == CacheKeyParams(query, analysis,
                                              map_query_to_operations(analysis, year))
               stored == cache_query_result(query_cache, Reinserted(query_params, first),
                                            result, now)
               looked == get_cached_query_result(stored, Reinserted(query_params, second), now)
           IN  /\ hashed' = [op |-> "_get_query_hash",
                             query |-> query,
                             texts |-> <<json_dumps(Reinserted(query_params, first), FALSE),
                                         json_dumps(Reinserted(query_params, second), FALSE)>>,
                             digests |-> <<_get_query_hash(Reinserted(query_params, first)),
                                           _get_query_hash(Reinserted(query_params, second))>>,
                             result |-> result,
                             ret |-> looked.ret]
               /\ query_cache' = looked.query_cache
    /\ UNCHANGED <<query_cache_file, now, ticks, year, data_cache, call, served, threads,
                   nlp, dedup, exec>>

NextKey == HashTwice

SpecKey == InitKey /\ [][NextKey]_vars

(* C14: the key of the query parameters is the same whatever the order in  *)
(* which the keys of their mappings were inserted, so a look-up with the   *)
(* one finds the entry stored with the other.                              *)
C14_KeyIgnoresInsertionOrder ==
    hashed # Idle =>
        /\ hashed.digests[1] = hashed.digests[2]
        /\ hashed.ret = Some(hashed.result)
        /\ Len(query_cache) = 1
        /\ query_cache[1].hash = hashed.digests[2]

(* the filters state, crop and year_range inserted in two orders: the      *)
(* texts differ, the digests do not                                        *)
C14_Witness ==
    /\ hashed # Idle
    /\ hashed.query = <<"rice", "production", "punjab">>
    /\ hashed.texts[1] # hashed.texts[2]
    /\ Len(hashed.texts[1]) = Len(hashed.texts[2])
    /\ hashed.digests[1] = hashed.digests[2]
    /\ hashed.ret # None

(* C21: when the grouped table of a comparison query holds two states or   *)
(* more, the answer names the first two of the table, the one of the       *)
(* higher value first, each value with two decimals and the thousands      *)
(* apart; with fewer it is the generic sentence.                           *)
GroupedStates == Unique(Column(exec.data[1].value, "state"))

GroupedValue(state) ==
    exec.data[1].value.rows[Min({k \in 1..Len(exec.data[1].value.rows) :
                                    exec.data[1].value.rows[k].state = state})].yield

NamesHigherFirst(answer, first, second) ==
    /\ Len(answer.args) = 5
    /\ answer.args[1] = first
    /\ answer.args[4] = second
    /\ answer.args[3] = Format2(GroupedValue(first))
    /\ answer.args[5] = Format2(GroupedValue(second))
    /\ ~CellGreater(GroupedValue(second), GroupedValue(first))

Compared ==
    /\ exec.op = "_generate_comparison_answer"
    /\ exec.data # <<>>
    /\ ~IsEmpty(exec.data[1].value)

C21_ComparisonHigherFirst ==
    Compared =>
        IF Len(GroupedStates) >= 2
        THEN \/ NamesHigherFirst(exec.out, GroupedStates[1], GroupedStates[2])
             \/ NamesHigherFirst(exec.out, GroupedStates[2], GroupedStates[1])
        ELSE exec.out = ComparisonFallback

(* the part that holds: the query names a state and both values are numbers *)
C21_WhenStateNamed ==
    (/\ Compared
     /\ exec.entities # <<>>
     /\ \A k \in 1..Len(exec.data[1].value.rows) : exec.data[1].value.rows[k].yield # NaN) =>
        IF Len(GroupedStates) >= 2
        THEN \/ NamesHigherFirst(exec.out, GroupedStates[1], GroupedStates[2])
             \/ NamesHigherFirst(exec.out, GroupedStates[2], GroupedStates[1])
        ELSE exec.out = ComparisonFallback

(* C22: the label of the age d >= 0 in whole days: "Current (Today)" for   *)
(* 0, "Recent (1 day old)" for 1, "Recent (d days old)" up to 7,           *)
(* "Moderate (d days old)" up to 30, "Older (d days old)" up to 365,       *)
(* "Historical (Y years old)" with Y = d div 365 beyond, the word being    *)
(* "year" when Y = 1; "Unknown" for a value that is missing or no date.    *)
Dated ==
    /\ exec.op = "_calculate_data_freshness"
    /\ exec.last_updated # None
    /\ exec.last_updated[1].form # "other"
    /\ IsDate(exec.last_updated[1])

Age == DaysOld(exec.last_updated[1], exec.today)

LabelOfAge(d, years_word) ==
    CASE d = 0 -> "Current (Today)"
      [] d = 1 -> "Recent (1 day old)"
      [] d \in 2..7 -> "Recent (" \o Decimal(d) \o " days old)"
      [] d \in 8..30 -> "Moderate (" \o Decimal(d) \o " days old)"
      [] d \in 31..365 -> "Older (" \o Decimal(d) \o " days old)"
      [] OTHER -> "Historical (" \o Decimal(d \div 365) \o years_word \o " old)"

C22_FreshnessLabel ==
    exec.op = "_calculate_data_freshness" =>
        IF Dated
        THEN Age >= 0 =>
                exec.out = LabelOfAge(Age, IF Age \div 365 = 1 THEN " year" ELSE " years")
        ELSE exec.out = "Unknown"

(* the claim with "years" for every Y *)
C22_AsStated ==
    exec.op = "_calculate_data_freshness" =>
        IF Dated
        THEN Age >= 0 => exec.out = LabelOfAge(Age, " years")
        ELSE exec.out = "Unknown"

(* 2023-03-02 is 730 days before 2025-03-01: two years *)
C22_Witness ==
    /\ Dated
    /\ exec.last_updated[1].form = "date"
    /\ exec.last_updated[1].year = 2023
    /\ Age = 730
    /\ exec.out = "Historical (2 years old)"

(***************************************************************************)
(* Properties of Spec: what the query cache holds                          *)
(***************************************************************************)
Failed(c) == c.op = "process_query" /\ c.ret # None /\ ~c.ret[1].success

(* C27: every response in the query cache has success = True, and a        *)
(* request that returns the error response stores nothing: every entry of  *)
(* the cache after it was there before it.                                 *)
C27_AllStoredSucceeded == \A i \in 1..Len(query_cache) : query_cache[i].result.success

C27_Step ==
    (call' # call /\ Failed(call')) => Range(query_cache') \subseteq Range(query_cache)

C27_OnlySuccessStored == []C27_AllStoredSucceeded /\ [][C27_Step]_vars

(* a request that raised after its execution, its key not in the cache *)
C27_Witness ==
    /\ Failed(call)
    /\ call.trace[Len(call.trace)] \in {"generate", "cache_put"}
    /\ call.hash \notin Hashes(query_cache)
    /\ query_cache # <<>>

(* a request answered from the cache *)
Hit(c) ==
    /\ c.op = "process_query"
    /\ c.ret # None
    /\ c.ret[1].success
    /\ c.ret[1].cached = Some(TRUE)

(* C28: a request answered from the cache leaves the cache as it was:      *)
(* the keys, the timestamp of each entry and each stored response, its     *)
(* cached flag included.                                                   *)
C28_Step == (call' # call /\ Hit(call')) => query_cache' = query_cache

C28_HitLeavesCacheUnchanged == [][C28_Step]_vars

(* what a hit does leave alone: the keys in their order, the timestamps,   *)
(* and of each response all but cached and cache_timestamp; the snapshot   *)
(* file is not written                                                     *)
Unmarked(cache) ==
    [i \in 1..Len(cache) |->
        [cache[i] EXCEPT !.result.cached = None, !.result.cache_timestamp = None]]

C28_HitStep ==
    (call' # call /\ Hit(call')) =>
        /\ Unmarked(query_cache') = Unmarked(query_cache)
        /\ query_cache_file' = query_cache_file
        /\ EntryOf(query_cache', call'.hash).result = call'.ret[1]

C28_HitKeepsKeysAndTimes == [][C28_HitStep]_vars

(***************************************************************************)
(* SpecSimple: the fallback pair SimpleQueryEngine / SimpleDataHandler,    *)
(* which main.py uses when pandas or spaCy cannot be imported.  The cache  *)
(* of the handler is held in query_cache as the sequence of its items      *)
(* [hash, result, timestamp, ttl]; the clock counts whole seconds.         *)
(***************************************************************************)
MaxSimpleCalls == 3     \* calls of SimpleQueryEngine.process_query in a run

MaxPasses == 2          \* clock steps in a run of the fallback pair

DaySeconds == 86400

(* datetime.now() when the clock shows t *)
datetime_now(t) == [days |-> t \div DaySeconds, seconds |-> t % DaySeconds]

(* datetime.isoformat(): the date and the time of day, 'T' between them *)
isoformat(dt) == <<dt.days, "T", dt.seconds>>

(* datetime.fromisoformat() *)
fromisoformat(text) == [days |-> text[1], seconds |-> text[3]]

(* datetime - datetime: a timedelta, normalised to 0 <= seconds < 86400 *)
TimeBetween(a, b) ==
    LET total == (a.days - b.days) * DaySeconds + (a.seconds - b.seconds)
    IN  [days |-> total \div DaySeconds, seconds |-> total % DaySeconds]

total_seconds(delta) == delta.days * DaySeconds + delta.seconds

(* hashlib.md5(query.encode()).hexdigest()[:8] *)
SimpleHash(query) == <<"md5", query, 8>>

(* (datetime.now() - cached_time).seconds < cached['ttl'] *)
Fresh(cached, t) ==
    TimeBetween(datetime_now(t), fromisoformat(cached.timestamp)).seconds < cached.ttl

(* SimpleDataHandler.get_cached_result *)
get_cached_result(cache, query_hash, t) ==
    LET at == KeyIndex(cache, query_hash)
    IN  IF at # {} /\ Fresh(cache[Min(at)], t) THEN Some(cache[Min(at)].result) ELSE None

(* SimpleDataHandler.cache_query_result, without the save *)
simple_cache_query_result(cache, query_hash, result, t) ==
    LET entry == [hash |-> query_hash, result |-> result,
                  timestamp |-> isoformat(datetime_now(t)), ttl |-> cache_timeout]
        at == KeyIndex(cache, query_hash)
    IN  IF at = {} THEN Append(cache, entry) ELSE [cache EXCEPT ![Min(at)] = entry]

AgricultureWords == {"rice", "wheat", "crop", "production"}

MeteorologyWords == {"rain", "rainfall", "weather", "climate"}

(* the response of SimpleQueryEngine.process_query for a query that has    *)
(* none of the words compare, punjab, maharashtra, highest, maximum: the   *)
(* sample tables of fetch_data hold 6 and 4 records                        *)
SimpleResponse(query, t) ==
    LET words == Range(query)
        answer == IF words \cap AgricultureWords # {}
                  THEN "I found 6 agricultural records. The data includes crop production statistics from various Indian states including rice, wheat, and other major crops."
                  ELSE IF words \cap MeteorologyWords # {}
                  THEN "I found rainfall data for 4 locations. The data shows precipitation patterns across different Indian states."
                  ELSE "I can help you with information about Indian agriculture and climate data. Try asking about crop production, rainfall, or specific states."
        records == IF words \cap AgricultureWords = {} /\ words \cap MeteorologyWords # {}
                   THEN 4 ELSE 6
    IN  [success |-> TRUE, answer |-> answer, data |-> records, query_type |-> "simple",
         from_cache |-> FALSE, timestamp |-> isoformat(datetime_now(t))]

(* SimpleQueryEngine.process_query: the cache afterwards and the response; *)
(* cached_result is the dict the cache holds, so from_cache is set in the  *)
(* cache as well                                                           *)
simple_process_query(cache, query, t) ==
    LET query_hash == SimpleHash(query)
        cached_result == get_cached_result(cache, query_hash, t)
    IN  IF cached_result # None
        THEN LET marked == [cache EXCEPT ![Min(KeyIndex(cache, query_hash))].result.from_cache = TRUE]
             IN  [query_cache |-> marked,
                  ret |-> marked[Min(KeyIndex(cache, query_hash))].result]
        ELSE [query_cache |-> simple_cache_query_result(cache, query_hash,
                                                        SimpleResponse(query, t), t),
              ret |-> SimpleResponse(query, t)]

SimpleQueries == { <<"rice", "production">>, <<"rainfall">>, <<"hello">> }

SimpleDelays ==
    {1, cache_timeout - 1, cache_timeout, DaySeconds - 1, DaySeconds, DaySeconds + cache_timeout}

InitSimple ==
    /\ query_cache = <<>>
    /\ query_cache_file = None
    /\ now = DaySeconds - 2
    /\ ticks = 0
    /\ year = 2025
    /\ data_cache = <<>>
    /\ call = Idle
    /\ served = <<>>
    /\ threads = <<>>
    /\ nlp = <<>>
    /\ dedup = <<>>
    /\ exec = <<>>
    /\ hashed = <<>>

(* the age in seconds of the entry of query_hash, None without an entry *)
AgeOf(cache, query_hash, t) ==
    LET at == KeyIndex(cache, query_hash)
    IN  IF at = {} THEN None
        ELSE Some(total_seconds(TimeBetween(datetime_now(t),
                                      fromisoformat(cache[Min(at)].timestamp))))

SimpleProcessQuery ==
    /\ Calls < MaxSimpleCalls
    /\ \E query \in SimpleQueries, outcome \in SaveOutcomes :
        \E out \in {simple_process_query(query_cache, query, now)} :
            /\ query_cache' = out.query_cache
            /\ query_cache_file' =
                  IF get_cached_result(query_cache, SimpleHash(query), now) # None
                  THEN query_cache_file
                  ELSE _save_query_cache(query_cache_file, out.query_cache, outcome)
            /\ call' = [op |-> "simple_process_query", n |-> Calls + 1, query |-> query,
                        hash |-> SimpleHash(query), at |-> now,
                        age |-> AgeOf(query_cache, SimpleHash(query), now),
                        looked |-> get_cached_result(query_cache, SimpleHash(query), now),
                        ret |-> out.ret]
            /\ UNCHANGED <<now, ticks, year, data_cache, served, threads, nlp, dedup,
                           exec, hashed>>

Pass ==
    \E d \in SimpleDelays :
        /\ ticks < MaxPasses
        /\ now' = now + d
        /\ ticks' = ticks + 1
        /\ UNCHANGED <<query_cache, query_cache_file, year, data_cache, call, served,
                       threads, nlp, dedup, exec, hashed>>

NextSimple == SimpleProcessQuery \/ Pass

SpecSimple == InitSimple /\ [][NextSimple]_vars

(* C29: get_cached_result returns nothing for an entry whose age is 3600 s *)
(* or more, ages of a day or more included.                                *)
C29_ExpiredNeverReturned ==
    (/\ call.op = "simple_process_query"
     /\ call.age # None
     /\ call.age[1] >= cache_timeout)
    => call.looked = None

(* what the code does: an entry is returned when the seconds of its age    *)
(* within the day are below the ttl, whole days not counted                *)
C29_SecondsOfTheDay ==
    call.op = "simple_process_query" =>
        /\ call.age = None => call.looked = None
        /\ call.age # None =>
              (call.looked # None <=> (call.age[1] % DaySeconds) < cache_timeout)
        /\ call.looked # None => call.ret.from_cache
        /\ call.looked = None => ~call.ret.from_cache

(* up to a day the claim holds *)
C29_WithinTheDay ==
    (/\ call.op = "simple_process_query"
     /\ call.age # None
     /\ call.age[1] >= cache_timeout
     /\ call.age[1] < DaySeconds)
    => call.looked = None

====
